---- MODULE Spec2Model ----
(***************************************************************************)
(* qperf test-execution engine: one endpoint (client or server) running    *)
(* one test driver, with the adapter, the peer and the duration alarm as   *)
(* its environment.                                                        *)
(*                                                                         *)
(* Two generations of the RDMA drivers are in the tree.  ver = "rdma" is   *)
(* src/src/rdma.c (helpers are void and leave through error(), which does  *)
(* not return); ver = "ib" is src/unnamed/part_001 (helpers return 0/1 and *)
(* the drivers unwind through "goto err").  src/ip.c belongs to the "ib"   *)
(* generation.                                                             *)
(***************************************************************************)
EXTENDS Integers, Sequences, FiniteSets, TLC

(***************************************************************************)
(* Bounds of the model.                                                    *)
(***************************************************************************)
\* The program's NCQE is 1024 (src/src/rdma.c:50); the model runs the same
\* loops with a pipeline of this depth.
NCQE == 2
\* Completions and messages the environment delivers during one test.
MaxDeliver == 3
\* Largest message size of a test (bytes).
MaxMsgSize == 2
\* Messages a -n run asks for beyond one pipeline.
ExtraMsgs == 1

(***************************************************************************)
(* Program constants.                                                      *)
(***************************************************************************)
WRID_SEND == 1
WRID_RECV == 2
WRID_RDMA == 3
\* One half of a 32-bit word.
U16 == 65536

VARIABLES
    test,       \* the driver this endpoint runs
    ver,        \* "rdma" (src/src/rdma.c) or "ib" (part_001, ip.c)
    client,     \* is_client()
    Req,        \* the request parameters the driver reads
    pc,         \* position of the main execution path
    Finished,   \* volatile int Finished
    Successful, \* int Successful
    alarm,      \* duration timer: "off", "armed", "fired"
    intr,       \* the alarm arrived while the current call was blocked
    LStat,      \* local statistics block
    ibdev,      \* IBDEV handles (0 = NULL, k = k-th acquired object)
    acqLog,     \* resources acquired, in order: <<kind, id>>
    relLog,     \* resources released, in order: <<kind, id>>
    sq,         \* work requests on the send queue, not yet completed
    rq,         \* receives posted and not yet consumed
    cq,         \* completions waiting in the completion queue
    armed,      \* completion notification requested (req_notify_cq)
    events,     \* completion events waiting on the channel
    wc,         \* completions returned by the last poll
    n,          \* return value of the last poll / socket call
    loc,        \* the driver's local variables
    delivered,  \* completions/messages delivered by the environment so far
    calls,      \* control calls made so far (stop_timing, exchange_results ...)
    syncRes,    \* result of the barrier: "none", "ok", "fail"
    sock,       \* data socket and accounting of the socket drivers
    ini,        \* both ends of the ib_init handshake on the control channel
    xr,         \* both ends of exchange_results on the control channel
    vf,         \* an atomic verification test and the word it operates on
    tcp,        \* both ends of a TCP bandwidth test and the bytes between them
    wrs,        \* work requests handed to ibv_post_send, with their flags
    pp,         \* both ends of a ping-pong latency loop and the messages between them
    qps,        \* one endpoint's queue pair from ib_open to ib_close
    lsn,        \* a server's listening socket and the client that connects to the announced port
    bi,         \* both ends of a bidirectional bandwidth test in event mode
    ctl         \* the client's calls of one test, seen from the control channel

vars == <<test, ver, client, Req, pc, Finished, Successful, alarm, intr, LStat,
          ibdev, acqLog, relLog, sq, rq, cq, armed, events, wc, n, loc,
          delivered, calls, syncRes, sock, ini, xr, vf,
          tcp,
          wrs,
          pp,
          qps,
          lsn,
          bi,
          ctl>>

(***************************************************************************)
(* Statistics block (qperf.h USTAT / STAT).                                *)
(***************************************************************************)
USTAT0 == [no_bytes |-> 0, no_msgs |-> 0, no_errs |-> 0]

STAT0 == [max_cqes |-> <<0, 0>>, s |-> USTAT0, r |-> USTAT0,
          rem_s |-> USTAT0, rem_r |-> USTAT0]

\* One successful operation of `bytes` bytes on role `role`.
Credit(ls, role, bytes) ==
    [ls EXCEPT ![role].no_bytes = @ + bytes, ![role].no_msgs = @ + 1]

\* if (n > LStat.max_cqes) LStat.max_cqes = n;  n is an int, max_cqes a
\* uint32_t: the comparison and the store are done in 32-bit unsigned.  A
\* 32-bit unsigned value is kept as <<high half, low half>>.
AsU32(k) == IF k >= 0 THEN <<k \div U16, k % U16>> ELSE <<U16 - 1, k % U16>>

GtU32(a, b) == a[1] > b[1] \/ (a[1] = b[1] /\ a[2] > b[2])

max_cqes_update(ls, k) ==
    IF GtU32(AsU32(k), ls.max_cqes) THEN [ls EXCEPT !.max_cqes = AsU32(k)] ELSE ls

(***************************************************************************)
(* IBDEV and the resources behind it.                                      *)
(***************************************************************************)
Kinds == {"devlist", "context", "channel", "pd", "buffer", "mr", "cq", "qp", "ah"}

IBDEV0 == [k \in Kinds |-> 0]

\* Acquire one object of `kind`: it gets the next id and the handle is stored.
Acquire(st, kind) ==
    LET id == Len(st.acq) + 1
    IN  [st EXCEPT !.ibdev[kind] = id, !.acq = Append(@, <<kind, id>>)]

\* An ib_close that destroys the queue pair before its completion queue.
CloseOrderQpFirst ==
    <<"ah", "qp", "cq", "mr", "pd", "channel", "context", "buffer", "devlist">>

\* Order in which ib_close looks at the handles.
CloseOrder ==
    <<"ah", "cq", "qp", "mr", "pd", "channel", "context", "buffer", "devlist">>

RECURSIVE ReleaseAll(_, _)
ReleaseAll(d, order) ==
    IF order = <<>> THEN <<>>
    ELSE LET k == Head(order)
         IN  (IF d[k] # 0 THEN <<<<k, d[k]>>>> ELSE <<>>)
             \o ReleaseAll(d, Tail(order))

\* ib_close: destroy every handle that is set, in CloseOrder, then clear the
\* structure.  Result: the objects released, in order.
ib_close(d) == ReleaseAll(d, CloseOrder)

(***************************************************************************)
(* error() of the src/src/rdma.c generation prints and leaves the process  *)
(* unless RET is among its actions; the part_001 generation's error() and  *)
(* syserror() print and return 0.  Outcome of a failed step per generation.*)
(***************************************************************************)
\* What a helper hands to its caller when a step fails.
OnFailure(v) == IF v = "rdma" THEN "exit" ELSE "fail"

(***************************************************************************)
(* ib_mralloc(ibdev, size): allocate and register a buffer.                *)
(*   st   = [ibdev, acq, rel]                                              *)
(*   fail = "none", "buffer" (posix_memalign fails) or "mr" (ibv_reg_mr)   *)
(***************************************************************************)
ib_mralloc(v, st, size, fail) ==
    IF size = 0 THEN [st EXCEPT !.res = "ok"]
    ELSE IF fail = "buffer" THEN
        \* err: if (ibdev->buffer) { free(ibdev->buffer); ibdev->buffer = 0; }
        IF v = "rdma" THEN [st EXCEPT !.res = "exit"]
        ELSE [st EXCEPT !.res = "fail",
                        !.rel = IF st.ibdev["buffer"] # 0
                                THEN Append(@, <<"buffer", st.ibdev["buffer"]>>)
                                ELSE @,
                        !.ibdev["buffer"] = 0]
    ELSE LET s1 == Acquire(st, "buffer")
         IN  IF fail = "mr" THEN
                 \* ibdev->mr = ibv_reg_mr(...) stored NULL
                 IF v = "rdma" THEN [s1 EXCEPT !.ibdev["mr"] = 0, !.res = "exit"]
                 ELSE [s1 EXCEPT !.res = "fail",
                                 !.rel = Append(@, <<"buffer", s1.ibdev["buffer"]>>),
                                 !.ibdev["buffer"] = 0,
                                 !.ibdev["mr"] = 0]
             ELSE [Acquire(s1, "mr") EXCEPT !.res = "ok"]

(***************************************************************************)
(* ib_open(ibdev, trans, maxSendWR, maxRecvWR).                            *)
(* The steps that can fail, in program order; the ones that acquire an     *)
(* object carry its kind.                                                  *)
(***************************************************************************)
\* dev_attr.max_qp_rd_atom of the adapter.  Adapters report a value far below
\* the send queue depth the drivers ask for; the model keeps that relation.
DevMaxRdAtom == NCQE

\* An ib_open that creates the completion queue before the protection domain.
OpenStepsCqEarly ==
    <<"rate", "devlist", "context", "channel", "cq", "pd", "buffer", "mr",
      "qp", "modify_init", "query_qp", "query_device", "query_port">>

OpenSteps ==
    <<"rate", "devlist", "context", "channel", "pd", "buffer", "mr", "cq",
      "qp", "modify_init", "query_qp", "query_device", "query_port">>

OpenFailPoints ==
    {OpenSteps[i] : i \in 1..Len(OpenSteps)} \cup {"buffer2", "mr2"}

RECURSIVE OpenRun(_, _, _)
\* Run the steps of `steps` up to the failing one.
OpenRun(st, steps, fail) ==
    IF steps = <<>> THEN [st EXCEPT !.res = "ok"]
    ELSE LET k == Head(steps)
         IN  IF k = fail THEN
                 \* a failed ibv_* call stores NULL in its handle
                 [st EXCEPT !.res = "fail"]
             ELSE OpenRun(IF k \in Kinds THEN Acquire(st, k) ELSE st,
                          Tail(steps), fail)

\* rd_atomic after "Get device properties".
rd_atomic_clamp(r) == IF r = 0 THEN DevMaxRdAtom ELSE r

ib_open(v, rqst, fail) ==
    LET st0  == [ibdev |-> IBDEV0, acq |-> acqLog, rel |-> relLog, res |-> "ok"]
        run  == OpenRun(st0, OpenSteps, fail)
        tooMany == rqst.rd_atomic > DevMaxRdAtom
        \* error(0, "device only supports ...") leaves in rdma.c, returns in part_001
        atom == IF run.res = "ok" /\ tooMany /\ v = "rdma"
                THEN [run EXCEPT !.res = "fail"] ELSE run
        mr   == IF atom.res = "ok"
                THEN ib_mralloc(v, atom, rqst.msg_size,
                                CASE fail = "buffer2" -> "buffer"
                                  [] fail = "mr2" -> "mr"
                                  [] OTHER -> "none")
                ELSE atom
        rda  == IF atom.res = "ok" THEN rd_atomic_clamp(rqst.rd_atomic)
                ELSE rqst.rd_atomic
    IN  IF mr.res = "ok" THEN [mr EXCEPT !.res = "ok"] @@ [rd_atomic |-> rda]
        ELSE IF v = "rdma" THEN [mr EXCEPT !.res = "exit"] @@ [rd_atomic |-> rda]
        ELSE \* err: ib_close(ibdev); return 0;
             [ibdev |-> IBDEV0, acq |-> mr.acq,
              rel |-> mr.rel \o ib_close(mr.ibdev), res |-> "fail",
              rd_atomic |-> rda]

(***************************************************************************)
(* Completion handling.                                                    *)
(***************************************************************************)
WC(id, status) == [wr_id |-> id, status |-> status]

Statuses == {"SUCCESS", "ERR"}

\* do_error of src/src/rdma.c: ++*errors; cq_error(status), whose error(0, ...)
\* does not return.
do_error_rdma(acc, role) ==
    [acc EXCEPT !.ls[role].no_errs = @ + 1, !.res = "exit"]

\* do_error of part_001: ++*errors; cq_error(status); return 0.  Every caller
\* leaves its loop on a zero return.
do_error_ib(acc, role) ==
    [acc EXCEPT !.ls[role].no_errs = @ + 1, !.res = "fail"]

do_error(v, acc, role) ==
    IF v = "rdma" THEN do_error_rdma(acc, role) ELSE do_error_ib(acc, role)

\* for (i = 0; i < n; ++i) H(wc[i]), left as soon as a step does not return "ok".
RECURSIVE Scan(_, _, _)
Scan(H(_, _), acc, w) ==
    IF w = <<>> \/ acc.res # "ok" THEN acc
    ELSE Scan(H, H(acc, Head(w)), Tail(w))

Min(a, b) == IF a < b THEN a ELSE b

\* left_to_send(&sent, room): how many of `room` messages may still be sent
\* under the no_msgs cap.
left_to_send(sent, room) ==
    IF Req.no_msgs = 0 THEN room
    ELSE IF Req.no_msgs - sent <= 0 THEN 0
    ELSE Min(room, Req.no_msgs - sent)

(***************************************************************************)
(* Posting work requests.  `out` is what the verbs call does:              *)
(*   <<"ok", k>>     all k requests are accepted                           *)
(*   <<"EINTR", j>>  the alarm arrives during the call for request j       *)
(*   <<"fail", j>>   request j is refused with another error               *)
(***************************************************************************)
PostOutcomes(k) ==
    {<<"ok", k>>}
    \cup (IF k > 0 THEN {<<"fail", j>> : j \in 0..(k-1)} ELSE {})
    \cup (IF k > 0 /\ alarm = "armed" THEN {<<"EINTR", j>> : j \in 0..(k-1)} ELSE {})

PostedBy(out) == out[2]

\* A post helper without the EINTR test: every failure is an error.
PostResultStrict(v, out) ==
    IF out[1] = "ok" THEN "ok" ELSE IF v = "rdma" THEN "exit" ELSE "fail"

\* if (Finished && errno == EINTR) return [1]; else error / return syserror().
PostResult(v, out) ==
    CASE out[1] = "ok"    -> "ok"
      [] out[1] = "EINTR" -> "ok"
      [] OTHER            -> IF v = "rdma" THEN "exit" ELSE "fail"

RECURSIVE Rep(_, _)
Rep(x, k) == IF k <= 0 THEN <<>> ELSE <<x>> \o Rep(x, k - 1)

\* ib_post_send(ibdev, n): n signaled sends; each accepted one is accounted.
ib_post_send(acc, k, out) ==
    [acc EXCEPT !.sq = @ \o Rep(WRID_SEND, PostedBy(out)),
                !.ls.s.no_bytes = @ + PostedBy(out) * Req.msg_size,
                !.ls.s.no_msgs = @ + PostedBy(out),
                !.res = PostResult(ver, out)]

\* ib_post_recv(ibdev, n): n receives; nothing is accounted.
ib_post_recv(acc, k, out) ==
    [acc EXCEPT !.rq = @ + PostedBy(out), !.res = PostResult(ver, out)]

\* ib_post_rdma(ibdev, opcode, n): accounted unless the opcode is RDMA read.
ib_post_rdma(acc, opcode, k, out) ==
    [acc EXCEPT !.sq = @ \o Rep(WRID_RDMA, PostedBy(out)),
                !.ls.s.no_bytes = @ + (IF opcode # "RDMA_READ"
                                       THEN PostedBy(out) * Req.msg_size ELSE 0),
                !.ls.s.no_msgs = @ + (IF opcode # "RDMA_READ"
                                      THEN PostedBy(out) ELSE 0),
                !.res = PostResult(ver, out)]

\* ib_post_fetch_add / ib_post_compare_swap: one atomic with the given wr_id.
ib_post_atomic(acc, wrid, out) ==
    [acc EXCEPT !.sq = @ \o Rep(wrid, PostedBy(out)),
                !.ls.s.no_bytes = @ + PostedBy(out) * 8,
                !.ls.s.no_msgs = @ + PostedBy(out),
                !.res = PostResult(ver, out)]

\* The alarm went off inside a verbs call.
AlarmIn(out) == out[1] = "EINTR"

\* The mutable state a loop body works on.
Acc == [ls |-> LStat, sq |-> sq, rq |-> rq, res |-> "ok"]

(***************************************************************************)
(* Test configurations.                                                    *)
(***************************************************************************)
Vers == {"rdma", "ib"}

RdmaTests ==
    {"ib_client_atomic", "ib_client_bw", "ib_server_def", "ib_bi_bw",
     "ib_pp_lat", "ib_rdma_write_poll_lat", "ib_client_rdma_read_lat",
     "ib_client_rdma_bw", "ib_server_nop"}

SockTests ==
    {"socket_client_bw", "socket_server_bw", "socket_client_lat",
     "socket_server_lat", "datagram_client_bw", "datagram_server_bw",
     "datagram_client_lat", "datagram_server_lat"}

\* ib_open(&ibdev, transport, maxSendWR, maxRecvWR) of each driver.
maxSendWR(t) ==
    CASE t \in {"ib_client_atomic", "ib_client_bw", "ib_bi_bw",
                "ib_rdma_write_poll_lat", "ib_client_rdma_bw"} -> NCQE
      [] t \in {"ib_pp_lat", "ib_client_rdma_read_lat"} -> 1
      [] OTHER -> 0

maxRecvWR(t) ==
    CASE t \in {"ib_server_def", "ib_bi_bw"} -> NCQE
      [] t \in {"ib_pp_lat", "ib_server_nop"} -> 1
      [] OTHER -> 0

\* A driver that posts its receives only inside its loop.
RecvBeforeSyncNone(t) == 0

\* Receives the driver posts before the barrier.
RecvBeforeSync(t) ==
    CASE t \in {"ib_server_def", "ib_bi_bw"} -> NCQE
      [] t = "ib_pp_lat" -> 1
      [] OTHER -> 0

REQ(pm, nm, ms, ra) ==
    [poll_mode |-> pm, no_msgs |-> nm, msg_size |-> ms, rd_atomic |-> ra]

LOC(tr, io, op) ==
    [transport |-> tr, iomode |-> io, opcode |-> op,
     sent |-> 0, done |-> 1, send |-> 0, buf |-> "loc", iter |-> "none"]

CFG(t, v, c, r, l) == [test |-> t, ver |-> v, client |-> c, Req |-> r, loc |-> l]

MsgSizes == {MaxMsgSize}

\* -n values tried: unlimited, and one more message than the pipeline holds.
NoMsgs == {0, NCQE + ExtraMsgs}

RdAtomics == {0, 1, DevMaxRdAtom + 1}

Configs ==
    {CFG("ib_client_atomic", v, TRUE, REQ(pm, 0, 0, ra), LOC("RC", "IO_SR", "ATOMIC")) :
        v \in Vers, pm \in BOOLEAN, ra \in RdAtomics}
    \cup
    {CFG("ib_client_bw", v, TRUE, REQ(pm, nm, ms, 0), LOC(tr, "IO_SR", "SEND")) :
        v \in Vers, pm \in BOOLEAN, nm \in NoMsgs, ms \in MsgSizes, tr \in {"RC", "UD"}}
    \cup
    {CFG("ib_server_def", v, FALSE, REQ(pm, nm, ms, 0), LOC(tr, "IO_SR", "SEND")) :
        v \in Vers, pm \in BOOLEAN, nm \in NoMsgs, ms \in MsgSizes, tr \in {"RC", "UD"}}
    \cup
    {CFG("ib_bi_bw", v, c, REQ(pm, 0, ms, 0), LOC("RC", "IO_SR", "SEND")) :
        v \in Vers, c \in BOOLEAN, pm \in BOOLEAN, ms \in MsgSizes}
    \cup
    {CFG("ib_pp_lat", v, c, REQ(pm, 0, ms, 0), LOC("RC", io, "SEND")) :
        v \in Vers, c \in BOOLEAN, pm \in BOOLEAN, ms \in MsgSizes,
        io \in {"IO_SR", "IO_RDMA"}}
    \cup
    {CFG("ib_rdma_write_poll_lat", v, c, REQ(TRUE, 0, ms, 0),
         LOC("RC", "IO_RDMA", "RDMA_WRITE")) :
        v \in Vers, c \in BOOLEAN, ms \in MsgSizes}
    \cup
    {CFG("ib_client_rdma_read_lat", v, TRUE, REQ(pm, 0, ms, 0),
         LOC("RC", "IO_RDMA", "RDMA_READ")) :
        v \in Vers, pm \in BOOLEAN, ms \in MsgSizes}
    \cup
    {CFG("ib_client_rdma_bw", v, TRUE, REQ(pm, 0, ms, 0), LOC("RC", "IO_RDMA", op)) :
        v \in Vers, pm \in BOOLEAN, ms \in MsgSizes,
        op \in {"RDMA_READ", "RDMA_WRITE"}}
    \cup
    {CFG("ib_server_nop", v, FALSE, REQ(TRUE, 0, ms, 0), LOC("RC", "IO_RDMA", "NONE")) :
        v \in Vers, ms \in MsgSizes}
    \cup
    {CFG(t, "ib", t \in {"socket_client_bw", "socket_client_lat",
                         "datagram_client_bw", "datagram_client_lat"},
         REQ(TRUE, 0, ms, 0), LOC("IP", "IO_SR", "NONE")) :
        t \in SockTests, ms \in MsgSizes}

(***************************************************************************)
(* Connection context (IBCON) and the codec it travels in.  A value wider  *)
(* than the checker's integers is kept as its bytes, most significant      *)
(* first: a uint32_t is four bytes, a uint64_t or int64_t eight.           *)
(***************************************************************************)
\* A uint32_t or uint64_t argument converted to the int64_t parameter of
\* enc_int: the bit pattern, zero-extended to eight bytes.
ToInt64(v) == Rep(0, 8 - Len(v)) \o v

\* An int64_t stored into a field of k bytes: the low k bytes.
Narrow(l, k) == SubSeq(l, 8 - k + 1, 8)

\* enc_int(l, n): the low n bytes of l, most significant first.
enc_int(l, k) == SubSeq(l, 8 - k + 1, 8)

\* dec_int(n) with the read cursor at byte `pos` of the stream: n bytes read
\* most significant first and zero-extended.  The cursor moves on by n.
dec_int(buf, pos, k) == Rep(0, 8 - k) \o SubSeq(buf, pos, pos + k - 1)

\* An encoder that writes the queue pair number before the lid.
enc_ibconQpnFirst(host) ==
    enc_int(ToInt64(host.qpn), 4) \o enc_int(ToInt64(host.lid), 4)
    \o enc_int(ToInt64(host.psn), 4) \o enc_int(ToInt64(host.rkey), 4)
    \o enc_int(ToInt64(host.vaddr), 8)

\* enc_ibcon(host): lid, qpn, psn, rkey in four bytes each, vaddr in eight.
enc_ibcon(host) ==
    enc_int(ToInt64(host.lid), 4) \o enc_int(ToInt64(host.qpn), 4)
    \o enc_int(ToInt64(host.psn), 4) \o enc_int(ToInt64(host.rkey), 4)
    \o enc_int(ToInt64(host.vaddr), 8)

\* dec_ibcon(host): the same five fields, in the same order.
dec_ibcon(buf) ==
    [lid   |-> Narrow(dec_int(buf, 1, 4), 4),
     qpn   |-> Narrow(dec_int(buf, 5, 4), 4),
     psn   |-> Narrow(dec_int(buf, 9, 4), 4),
     rkey  |-> Narrow(dec_int(buf, 13, 4), 4),
     vaddr |-> Narrow(dec_int(buf, 17, 8), 8)]

\* memset(ibdev, 0, sizeof(*ibdev)): a context nobody has filled in.
IBCON0 == [lid |-> Rep(0, 4), qpn |-> Rep(0, 4), psn |-> Rep(0, 4),
           rkey |-> Rep(0, 4), vaddr |-> Rep(0, 8)]

\* Local contexts as ib_open leaves them: port lid, QP number, a 24-bit psn,
\* the rkey and address of the registered buffer.
LocalContexts ==
    [lid   : {<<0, 0, 0, 1>>, <<0, 0, 255, 255>>},
     qpn   : {<<0, 0, 1, 2>>, <<0, 255, 255, 255>>},
     psn   : {<<0, 18, 52, 86>>},
     rkey  : {<<0, 0, 0, 0>>, <<255, 255, 255, 255>>},
     vaddr : {<<0, 0, 0, 0, 0, 0, 0, 0>>, <<255, 255, 127, 0, 0, 0, 16, 0>>}]

\* One end of the handshake: where it is in ib_init, and its two contexts.
IniSide(l) == [pc |-> "op1", lcon |-> l, rcon |-> IBCON0]

\* Both ends and the two directions of the control channel.
INI0 == [c |-> IniSide(IBCON0), s |-> IniSide(IBCON0),
         c2s |-> <<>>, s2c |-> <<>>, up |-> TRUE]

(***************************************************************************)
(* The statistics block on the wire: max_cqes in four bytes, then the      *)
(* three counters of s, r, rem_s and rem_r in eight bytes each, in struct  *)
(* order.  Counters are kept as their eight bytes.                         *)
(***************************************************************************)
enc_ustat(u) ==
    enc_int(ToInt64(u.no_bytes), 8) \o enc_int(ToInt64(u.no_msgs), 8)
    \o enc_int(ToInt64(u.no_errs), 8)

dec_ustat(buf, pos) ==
    [no_bytes |-> Narrow(dec_int(buf, pos, 8), 8),
     no_msgs  |-> Narrow(dec_int(buf, pos + 8, 8), 8),
     no_errs  |-> Narrow(dec_int(buf, pos + 16, 8), 8)]

enc_stat(st) ==
    enc_int(ToInt64(st.max_cqes), 4) \o enc_ustat(st.s) \o enc_ustat(st.r)
    \o enc_ustat(st.rem_s) \o enc_ustat(st.rem_r)

dec_stat(buf) ==
    [max_cqes |-> Narrow(dec_int(buf, 1, 4), 4),
     s     |-> dec_ustat(buf, 5),
     r     |-> dec_ustat(buf, 29),
     rem_s |-> dec_ustat(buf, 53),
     rem_r |-> dec_ustat(buf, 77)]

\* Counter triples an endpoint may have gathered.
WireUstats ==
    {[no_bytes |-> Rep(0, 8), no_msgs |-> Rep(0, 8), no_errs |-> Rep(0, 8)],
     [no_bytes |-> <<128, 0, 0, 1, 0, 0, 0, 0>>,
      no_msgs  |-> <<0, 0, 0, 0, 255, 255, 255, 255>>,
      no_errs  |-> <<0, 0, 0, 0, 0, 0, 0, 3>>]}

WireStats ==
    [max_cqes : {<<0, 0, 0, 2>>, <<255, 255, 255, 255>>},
     s : WireUstats, r : WireUstats, rem_s : WireUstats, rem_r : WireUstats]

WireStat0 == CHOOSE st \in WireStats : st.max_cqes = <<0, 0, 0, 2>> /\ st.s = st.r
                                       /\ st.r = st.rem_s /\ st.rem_s = st.rem_r
                                       /\ st.s.no_errs = Rep(0, 8)

\* One end of exchange_results: its position, its LStat and what it has read
\* of the peer's.
XrSide(l) == [pc |-> "op1", LStat |-> l, RStat |-> WireStat0]

XR0 == [c |-> XrSide(WireStat0), s |-> XrSide(WireStat0),
        c2s |-> <<>>, s2c |-> <<>>, up |-> TRUE]


(***************************************************************************)
(* The atomic verification tests.  A uint64_t is kept as four 16-bit        *)
(* limbs, most significant first.                                          *)
(***************************************************************************)
Z64 == <<0, 0, 0, 0>>

\* 0x0123456789abcdefULL
SwapSeed == <<291, 17767, 35243, 52719>>

\* a + b on uint64_t.
Add64(a, b) ==
    LET s4 == a[4] + b[4]
        s3 == a[3] + b[3] + (s4 \div U16)
        s2 == a[2] + b[2] + (s3 \div U16)
        s1 == a[1] + b[1] + (s2 \div U16)
    IN  <<s1 % U16, s2 % U16, s3 % U16, s4 % U16>>

Inc64(a) == Add64(a, <<0, 0, 0, 1>>)

VerKinds == {"fetch_add", "compare_swap"}

\* One verification test before its first post: the locals of
\* run_client_ver_rc_*, the send and completion queues, the result slots of
\* the local buffer, the word at rcon.vaddr of the server, and what the test
\* has seen so far.
VF(kind, rd) ==
    [kind |-> kind, rd_atomic |-> rd, pc |-> "prime", i |-> 0,
     last |-> Z64, cur |-> Z64, next |-> SwapSeed,
     result |-> [x \in 0..(rd - 1) |-> Z64], word |-> Z64,
     sq |-> <<>>, cq |-> <<>>, Finished |-> FALSE, Successful |-> FALSE,
     rem_r |-> USTAT0, s |-> USTAT0, max_cqes |-> 0,
     olds |-> <<>>, posts |-> <<>>, seen |-> <<>>, ndeliv |-> 0,
     inorder |-> TRUE, errs |-> FALSE, mism |-> FALSE]

VF0 == [VF("fetch_add", 1) EXCEPT !.pc = "off"]

(***************************************************************************)
(* Both ends of a TCP bandwidth test: socket_client_bw writes into the      *)
(* connection, socket_server_bw reads from it.                             *)
(***************************************************************************)
\* What the socket buffers between the two ends hold at most.
PipeCap == MaxMsgSize

TcpSide(p) ==
    [pc |-> p, left |-> 0, n |-> 0, Finished |-> FALSE, Successful |-> FALSE,
     LStat |-> [s |-> USTAT0, r |-> USTAT0]]

\* Both ends after the barrier; pipe counts the bytes written and not read.
TCP(p) == [c |-> TcpSide(p), s |-> TcpSide(p), pipe |-> 0, started |-> 0, ioerr |-> FALSE]

TCP0 == TCP("off")

(***************************************************************************)
(* The work requests the post functions build.                              *)
(***************************************************************************)
\* struct ibv_send_wr, the fields the claims speak of.
WR(id, opcode, length, flags) ==
    [wr_id |-> id, opcode |-> opcode, length |-> length, send_flags |-> flags]

\* A device with the given ibdev->maxinline and a request with the given
\* Req.msg_size; posted is what has been handed to ibv_post_send.
WRS(maxinline, msg_size) ==
    [maxinline |-> maxinline, msg_size |-> msg_size, posted |-> <<>>]

WRS0 == WRS(0, 0)

\* An ib_post_send that goes inline only below the limit.
wr_sendStrict(w) ==
    WR(WRID_SEND, "SEND", w.msg_size,
       {"SIGNALED"} \cup (IF w.msg_size < w.maxinline THEN {"INLINE"} ELSE {}))

\* ib_post_send: if (Req.msg_size <= ibdev->maxinline) wr.send_flags |= IBV_SEND_INLINE;
wr_send(w) ==
    WR(WRID_SEND, "SEND", w.msg_size,
       {"SIGNALED"} \cup (IF w.msg_size <= w.maxinline THEN {"INLINE"} ELSE {}))

\* ib_post_rdma: if (opcode != IBV_WR_RDMA_READ && Req.msg_size <=
\* ibdev->maxinline) wr.send_flags |= IBV_SEND_INLINE;
wr_rdma(w, opcode) ==
    WR(WRID_RDMA, opcode, w.msg_size,
       {"SIGNALED"} \cup (IF opcode # "RDMA_READ" /\ w.msg_size <= w.maxinline
                          THEN {"INLINE"} ELSE {}))

\* ib_post_fetch_add / ib_post_compare_swap: .send_flags = IBV_SEND_SIGNALED,
\* .length = sizeof(uint64_t).
wr_atomic(w, opcode, wrid) == WR(wrid, opcode, 8, {"SIGNALED"})

RdmaOpcodes == {"RDMA_WRITE", "RDMA_WRITE_WITH_IMM", "RDMA_READ"}

AtomicOpcodes == {"ATOMIC_FETCH_AND_ADD", "ATOMIC_CMP_AND_SWP"}

(***************************************************************************)
(* Both ends of ib_pp_lat_loop.                                             *)
(***************************************************************************)
\* One end after ib_post_recv(ibdev, 1) and the barrier: int done = 1; the
\* client has its first post still before it.
PpSide(p) ==
    [pc |-> p, done |-> 1, Finished |-> FALSE,
     s_no_msgs |-> 0, r_no_msgs |-> 0,
     rq |-> 1,          \* receives posted and not consumed
     unsig |-> 0,       \* sends posted whose completion is not in the CQ yet
     out |-> 0,         \* sends posted whose completion has not been polled
     cq |-> <<>>,
     arrived |-> 0]     \* messages of the peer that have reached this end

\* c2s, s2c: messages on their way.
PP(pcC, pcS) ==
    [c |-> PpSide(pcC), s |-> PpSide(pcS), c2s |-> 0, s2c |-> 0, ndeliv |-> 0]

PP0 == PP("off", "off")

(***************************************************************************)
(* One endpoint's queue pair.                                               *)
(***************************************************************************)
\* todo: the calls still before the endpoint, in program order; state: the
\* queue pair's state ("none" before ibv_create_qp and after
\* ibv_destroy_qp); hist: the states it has been moved to; rcon: whether
\* the peer's context has been decoded into ibdev->rcon; ah: whether the
\* address handle exists; posted: send-side work requests posted.
QPS(role, trans, todo) ==
    [role |-> role, trans |-> trans, todo |-> todo, state |-> "none",
     hist |-> <<>>, rcon |-> FALSE, ah |-> FALSE, posted |-> 0,
     res |-> "run"]

QPS0 == QPS("c", "RC", <<>>)

(***************************************************************************)
(* A listening socket of the server and the client's connect.               *)
(***************************************************************************)
\* todo: the server's calls still to come; listening: listen() has returned
\* 0; chan: port messages on the control channel; c: where the client is;
\* s: how the server's function has ended ("run" while it has not).
LSN(kind, todo) ==
    [kind |-> kind, todo |-> todo, bound |-> FALSE, listening |-> FALSE,
     chan |-> 0, c |-> "recv_mesg", s |-> "run", accepted |-> FALSE]

LSN0 == LSN("ip", <<>>)

(***************************************************************************)
(* Both ends of ib_bi_bw over RC in event mode.                             *)
(***************************************************************************)
\* One end after ib_post_recv(&ibdev, NCQE), the barrier and
\* ib_post_send(&ibdev, NCQE), about to call ib_poll.  sq: sends posted and
\* not yet taken by the peer; unacked: sends taken by the peer whose
\* completion is not in the CQ yet; rq: receives posted; armed: notification
\* requested (at the end of ib_prepare); events: events on the channel.
BiSide(p, k) ==
    [pc |-> p, sq |-> k, unacked |-> 0, rq |-> k, cq |-> <<>>, armed |-> TRUE,
     events |-> 0, Finished |-> FALSE]

BI(p, k) == [c |-> BiSide(p, k), s |-> BiSide(p, k)]

BI0 == BI("off", 0)

(***************************************************************************)
(* The client's calls of one test.                                          *)
(***************************************************************************)
\* todo: the calls still to come, in program order; made: the calls made;
\* res: "run", or "exit" once a helper has left the process.
CTL(todo) == [todo |-> todo, made |-> <<>>, res |-> "run"]

CTL0 == CTL(<<>>)

SOCK0 == [fd |-> 0, left |-> 0]

\* The state of one endpoint on entry to the driver of configuration cfg.
DriverInit(cfg) ==
        /\ test = cfg.test
        /\ ver = cfg.ver
        /\ client = cfg.client
        /\ Req = cfg.Req
        /\ loc = [cfg.loc EXCEPT
                    !.send = IF cfg.test = "ib_rdma_write_poll_lat" /\ cfg.client
                             THEN 1 ELSE 0]
        /\ pc = "open"
        /\ Finished = FALSE
        /\ Successful = FALSE
        /\ alarm = "off"
        /\ intr = FALSE
        /\ LStat = STAT0
        /\ ibdev = IBDEV0
        /\ acqLog = <<>>
        /\ relLog = <<>>
        /\ sq = <<>>
        /\ rq = 0
        /\ cq = <<>>
        /\ armed = FALSE
        /\ events = 0
        /\ wc = <<>>
        /\ n = 0
        /\ delivered = 0
        /\ calls = <<>>
        /\ syncRes = "none"
        /\ sock = SOCK0

Init ==
    \E cfg \in Configs :
        /\ DriverInit(cfg)
        /\ ini = INI0
        /\ xr = XR0
        /\ vf = VF0
        /\ tcp = TCP0
        /\ wrs = WRS0
        /\ pp = PP0
        /\ qps = QPS0
        /\ lsn = LSN0
        /\ bi = BI0
        /\ ctl = CTL0

(***************************************************************************)
(* Frames.                                                                 *)
(***************************************************************************)
cfgVars  == <<test, ver, client, ini, xr, vf, tcp, wrs, pp, qps, lsn, bi, ctl>>
devVars  == <<ibdev, acqLog, relLog>>
qVars    == <<sq, rq, cq, armed, events>>
pollVars == <<wc, n>>
ctlVars  == <<calls, syncRes>>

Running == pc \notin {"done", "exit"}

\* Positions where the main path sleeps inside a system call.
BlockedPcs == {"in_get_cq_event", "in_pause", "in_io"}

(***************************************************************************)
(* Environment: the duration alarm, the adapter and the peer.              *)
(***************************************************************************)
\* The alarm is delivered once; its handler sets Finished.  A call the main
\* path is sleeping in returns EINTR.
Alarm ==
    /\ alarm = "armed"
    /\ Running
    /\ alarm' = "fired"
    /\ Finished' = TRUE
    /\ intr' = (pc \in BlockedPcs)
    /\ UNCHANGED <<cfgVars, Req, pc, Successful, LStat, devVars, qVars, pollVars,
                   loc, delivered, ctlVars, sock>>

\* A completion is added to the CQ; a requested notification is raised once.
Complete(w) ==
    /\ cq' = Append(cq, w)
    /\ events' = IF armed THEN events + 1 ELSE events
    /\ armed' = FALSE
    /\ delivered' = delivered + 1

\* The adapter finishes the oldest work request of the send queue.  Once the
\* alarm has fired the drivers leave their loops, and the adapter drains what
\* is left.
HcaComplete ==
    /\ Running
    /\ sq # <<>>
    /\ delivered < MaxDeliver \/ Finished
    /\ \E st \in Statuses : Complete(WC(Head(sq), st))
    /\ sq' = Tail(sq)
    /\ UNCHANGED <<cfgVars, Req, pc, Finished, Successful, alarm, intr, LStat,
                   devVars, rq, pollVars, loc, ctlVars, sock>>

\* A message of the peer consumes a posted receive.  In the ping-pong test
\* the peer sends only in answer to a message it has received, and the
\* completion of that message reaches the CQ before the answer does.
PeerMessage ==
    /\ Running
    /\ syncRes = "ok"
    /\ test \in {"ib_server_def", "ib_bi_bw", "ib_pp_lat"}
    /\ test = "ib_pp_lat" => sq = <<>>
    /\ rq > 0
    /\ delivered < MaxDeliver
    /\ \E st \in Statuses : Complete(WC(WRID_RECV, st))
    /\ rq' = rq - 1
    /\ UNCHANGED <<cfgVars, Req, pc, Finished, Successful, alarm, intr, LStat,
                   devVars, sq, pollVars, loc, ctlVars, sock>>

\* The peer's RDMA write lands in the buffer: both marker bytes now hold the
\* peer's id.  The peer answers a write of ours (the server waits for the
\* client's first one), so the completion of that write is in the CQ before
\* the answer is in the buffer.
PeerMarker ==
    /\ Running
    /\ syncRes = "ok"
    /\ test = "ib_rdma_write_poll_lat"
    /\ loc.buf = "loc"
    /\ loc.send = 0 \/ (loc.iter = "posted" /\ sq = <<>>)
    /\ delivered < MaxDeliver
    /\ loc' = [loc EXCEPT !.buf = "rem"]
    /\ delivered' = delivered + 1
    /\ UNCHANGED <<cfgVars, Req, pc, Finished, Successful, alarm, intr, LStat,
                   devVars, qVars, pollVars, ctlVars, sock>>

(***************************************************************************)
(* Steps shared by the RDMA drivers.                                       *)
(***************************************************************************)
\* Where a step goes on "ok", when the helper left the process ("exit") and
\* when it returned 0 ("fail").
Goto(res, okpc, failpc) ==
    CASE res = "ok"   -> okpc
      [] res = "exit" -> "exit"
      [] OTHER        -> failpc

\* The alarm arrived inside the verbs call of this step.
AlarmDuring(hit) ==
    /\ Finished' = (Finished \/ hit)
    /\ alarm' = IF hit THEN "fired" ELSE alarm

\* ib_open(&ibdev, transport, maxSendWR, maxRecvWR) and the driver's test of
\* its result: part_001's ib_server_def returns, every other driver of that
\* generation goes to err.
Do_ib_open ==
    /\ pc = "open"
    /\ test \in RdmaTests
    /\ \E fail \in OpenFailPoints \cup {"none"} :
         LET r == ib_open(ver, Req, fail)
         IN  /\ ibdev' = r.ibdev
             /\ acqLog' = r.acq
             /\ relLog' = r.rel
             /\ Req' = [Req EXCEPT !.rd_atomic = r.rd_atomic]
             /\ pc' = Goto(r.res,
                           IF test = "ib_client_atomic" THEN "mralloc" ELSE "init",
                           IF test = "ib_server_def" THEN "done" ELSE "err")
    /\ UNCHANGED <<cfgVars, Finished, Successful, alarm, intr, LStat, qVars,
                   pollVars, loc, delivered, ctlVars, sock>>

\* ib_client_atomic: setv_u32(L_MSG_SIZE, 8); ib_mralloc(&ibdev, 8).  The
\* part_001 driver does not look at the result.
Do_ib_mralloc ==
    /\ pc = "mralloc"
    /\ \E fail \in {"none", "buffer", "mr"} :
         LET st == [ibdev |-> ibdev, acq |-> acqLog, rel |-> relLog, res |-> "ok"]
             r  == ib_mralloc(ver, st, 8, fail)
         IN  /\ ibdev' = r.ibdev
             /\ acqLog' = r.acq
             /\ relLog' = r.rel
             /\ pc' = IF r.res = "exit" THEN "exit" ELSE "init"
    /\ Req' = [Req EXCEPT !.msg_size = 8]
    /\ UNCHANGED <<cfgVars, Finished, Successful, alarm, intr, LStat, qVars,
                   pollVars, loc, delivered, ctlVars, sock>>

\* Steps of ib_init that can fail: the two control messages, the QP
\* transitions of ib_prepare, its address handle (UD) and its
\* ibv_req_notify_cq (event mode).
InitFailPoints ==
    {"mesg", "modify_qp"}
    \cup (IF loc.transport = "UD" THEN {"ah"} ELSE {})
    \cup (IF ~Req.poll_mode THEN {"notify"} ELSE {})

\* ib_init: exchange the connection context, then ib_prepare.
Do_ib_init ==
    /\ pc = "init"
    /\ \E fail \in InitFailPoints \cup {"none"} :
         \* the adapter refuses a QP whose max_rd_atomic is above its limit
         /\ Req.rd_atomic > DevMaxRdAtom => fail = "modify_qp"
         /\ LET st  == [ibdev |-> ibdev, acq |-> acqLog, rel |-> relLog, res |-> "ok"]
                ah  == IF loc.transport = "UD" /\ fail \in {"none", "notify"}
                       THEN Acquire(st, "ah") ELSE st
            IN  /\ ibdev' = ah.ibdev
                /\ acqLog' = ah.acq
                /\ armed' = (~Req.poll_mode /\ fail = "none")
                /\ pc' = IF fail = "none"
                         THEN (IF RecvBeforeSync(test) > 0 THEN "recv0" ELSE "sync")
                         ELSE Goto(OnFailure(ver), "init", "err")
    /\ UNCHANGED <<cfgVars, Req, Finished, Successful, alarm, intr, LStat, relLog,
                   sq, rq, cq, events, pollVars, loc, delivered, ctlVars, sock>>

\* The receives posted before the barrier (ib_server_def, ib_bi_bw,
\* ib_pp_lat_loop).
Do_post_recv0 ==
    /\ pc = "recv0"
    /\ \E out \in PostOutcomes(RecvBeforeSync(test)) :
         LET a == ib_post_recv(Acc, RecvBeforeSync(test), out)
         IN  /\ rq' = a.rq
             /\ pc' = Goto(a.res, "sync", "err")
    /\ UNCHANGED <<cfgVars, Req, Finished, Successful, alarm, intr, LStat, devVars,
                   sq, cq, armed, events, pollVars, loc, delivered, ctlVars, sock>>

\* A driver that does not look at what synchronize() returned.
AfterBarrierIgnore(ok, nextpc) == nextpc

\* if (!synchronize()) goto err;   (part_001, ip.c)
AfterBarrier(ok, nextpc) == IF ok THEN nextpc ELSE "err"

\* Drivers that post work requests between the barrier and their loop.
HasPrime(t, c) ==
    \/ t \in {"ib_client_atomic", "ib_client_bw", "ib_bi_bw",
              "ib_client_rdma_read_lat", "ib_client_rdma_bw"}
    \/ t = "ib_pp_lat" /\ c

AfterSync(t, c) ==
    CASE t \in SockTests -> "sockloop"
      [] HasPrime(t, c)  -> "prime"
      [] OTHER           -> "loop"

\* The barrier.  sync_test() of the src/src/rdma.c generation does not return
\* on failure; synchronize() of the other generation returns 0.  The duration
\* timer starts on barrier release.
Do_synchronize ==
    /\ pc = "sync"
    /\ \E ok \in BOOLEAN :
         /\ syncRes' = IF ok THEN "ok" ELSE "fail"
         /\ alarm' = IF ok THEN "armed" ELSE alarm
         /\ pc' = IF ver = "rdma"
                  THEN (IF ok THEN AfterSync(test, client) ELSE "exit")
                  ELSE AfterBarrier(ok, AfterSync(test, client))
    /\ calls' = Append(calls, "synchronize")
    /\ UNCHANGED <<cfgVars, Req, Finished, Successful, intr, LStat, devVars,
                   qVars, pollVars, loc, delivered, sock>>

\* A driver that posts one request more than the queue was created for.
PrimeCountOver == NCQE + 1

\* What the driver posts between the barrier and its loop.
PrimeCount ==
    CASE test = "ib_client_atomic" -> Req.rd_atomic
      [] test = "ib_client_bw"     -> left_to_send(0, NCQE)
      [] test \in {"ib_bi_bw", "ib_client_rdma_bw"} -> NCQE
      [] OTHER -> 1

PostData(acc, k, out) ==
    CASE test = "ib_client_atomic" -> ib_post_atomic(acc, 0, out)
      [] test \in {"ib_client_bw", "ib_bi_bw"} -> ib_post_send(acc, k, out)
      [] test = "ib_pp_lat" ->
            IF loc.iomode = "IO_SR" THEN ib_post_send(acc, k, out)
            ELSE ib_post_rdma(acc, "RDMA_WRITE_WITH_IMM", k, out)
      [] OTHER -> ib_post_rdma(acc, loc.opcode, k, out)

Do_prime ==
    /\ pc = "prime"
    /\ \E out \in PostOutcomes(PrimeCount) :
         LET a == PostData(Acc, PrimeCount, out)
         IN  /\ LStat' = a.ls
             /\ sq' = a.sq
             /\ pc' = Goto(a.res, "loop", "err")
             /\ AlarmDuring(AlarmIn(out))
    /\ loc' = [loc EXCEPT !.sent = IF test = "ib_client_bw" THEN NCQE ELSE @,
                          !.done = IF test = "ib_pp_lat" THEN 0 ELSE @]
    /\ UNCHANGED <<cfgVars, Req, Successful, intr, devVars, rq, cq, armed, events,
                   pollVars, delivered, ctlVars, sock>>

\* Leaving the loop normally: part_001 and ip.c set Successful = 1.
Break ==
    /\ pc' = "err"
    /\ Successful' = (ver = "ib")

\* while (!Finished) of the drivers that poll through ib_poll, and of
\* ib_server_nop.
While_Finished ==
    /\ pc = "loop"
    /\ test \in RdmaTests \ {"ib_rdma_write_poll_lat"}
    /\ IF Finished THEN Break
       ELSE /\ pc' = IF test = "ib_server_nop" THEN "pause" ELSE "poll"
            /\ UNCHANGED Successful
    /\ UNCHANGED <<cfgVars, Req, Finished, alarm, intr, LStat, devVars, qVars,
                   pollVars, loc, delivered, ctlVars, sock>>

\* pause(): entered, then left only when the alarm interrupts it.
Do_pause ==
    /\ \/ pc = "pause" /\ pc' = "in_pause" /\ UNCHANGED intr
       \/ pc = "in_pause" /\ intr /\ pc' = "loop" /\ intr' = FALSE
    /\ UNCHANGED <<cfgVars, Req, Finished, Successful, alarm, LStat, devVars,
                   qVars, pollVars, loc, delivered, ctlVars, sock>>

(***************************************************************************)
(* ib_poll.                                                                *)
(***************************************************************************)
\* The wc[] size each driver hands to ib_poll.
cardof_wc(t) ==
    CASE t = "ib_pp_lat" -> 2
      [] t = "ib_client_rdma_read_lat" -> 1
      [] OTHER -> NCQE

\* What ibv_poll_cq can do: return up to nwc completions, fail, or fail with
\* EINTR because the alarm arrived during the call.
PollOutcomes == {"ok", "fail"} \cup (IF alarm = "armed" THEN {"EINTR"} ELSE {})

\* maybe(0, msg) of src/src/rdma.c and the err: label of part_001's ib_poll:
\* a failure with Finished set and errno == EINTR is "nothing polled";
\* any other failure is fatal (rdma.c) or returns -1 (part_001).
maybe(v, o, fin) ==
    IF o = "EINTR" /\ fin THEN [n |-> 0, pc |-> "polled"]
    ELSE IF v = "rdma" THEN [n |-> 0, pc |-> "exit"]
    ELSE [n |-> -1, pc |-> "polled"]

\* n = ibv_poll_cq(ibdev->cq, nwc, wc); if (n < 0) return maybe(...); return n;
PollCq(nwc) ==
    \E o \in PollOutcomes :
        /\ AlarmDuring(o = "EINTR")
        /\ IF o = "ok"
           THEN LET k == Min(nwc, Len(cq))
                IN  /\ wc' = SubSeq(cq, 1, k)
                    /\ cq' = SubSeq(cq, k + 1, Len(cq))
                    /\ n' = k
                    /\ pc' = "polled"
           ELSE LET m == maybe(ver, o, Finished')
                IN  /\ wc' = <<>>
                    /\ n' = m.n
                    /\ pc' = m.pc
                    /\ UNCHANGED cq

\* ibv_get_cq_event returned an event: re-arm the notification, then poll.
GotEvent ==
    /\ events > 0
    /\ events' = events - 1
    /\ armed' = TRUE
    /\ PollCq(cardof_wc(test))

\* ib_poll up to its first call: in event mode, and only if Finished is not
\* set, it goes on to ibv_get_cq_event; otherwise it polls at once.
Do_ib_poll ==
    /\ pc = "poll"
    /\ IF ~Req.poll_mode /\ ~Finished
       THEN /\ pc' = "get_cq_event"
            /\ UNCHANGED <<Finished, alarm, cq, armed, events, pollVars>>
       ELSE /\ PollCq(cardof_wc(test))
            /\ UNCHANGED <<armed, events>>
    /\ UNCHANGED <<cfgVars, Req, Successful, intr, LStat, devVars, sq, rq, loc,
                   delivered, ctlVars, sock>>

\* ibv_get_cq_event is entered: it returns an event that is waiting, else the
\* main path sleeps in it.
Do_get_cq_event ==
    /\ pc = "get_cq_event"
    /\ IF events > 0
       THEN GotEvent
       ELSE /\ pc' = "in_get_cq_event"
            /\ UNCHANGED <<Finished, alarm, cq, armed, events, pollVars>>
    /\ UNCHANGED <<cfgVars, Req, Successful, intr, LStat, devVars, sq, rq, loc,
                   delivered, ctlVars, sock>>

\* The sleeping ibv_get_cq_event returns: with an event, or with EINTR after
\* the alarm (ib_poll then returns 0 through maybe / its err: label).
Wake_get_cq_event ==
    /\ pc = "in_get_cq_event"
    /\ \/ /\ GotEvent
          /\ UNCHANGED intr
       \/ /\ intr
          /\ intr' = FALSE
          /\ LET m == maybe(ver, "EINTR", Finished)
             IN  /\ n' = m.n
                 /\ pc' = m.pc
          /\ wc' = <<>>
          /\ UNCHANGED <<Finished, alarm, cq, armed, events>>
    /\ UNCHANGED <<cfgVars, Req, Successful, LStat, devVars, sq, rq, loc,
                   delivered, ctlVars, sock>>

\* stop_timing(); exchange_results(); ib_close(&ibdev);  The timer is
\* disarmed.
Teardown ==
    /\ pc = "err"
    /\ test \in RdmaTests
    /\ calls' = calls \o <<"stop_timing", "exchange_results">>
    /\ relLog' = relLog \o ib_close(ibdev)
    /\ ibdev' = IBDEV0
    /\ alarm' = IF alarm = "armed" THEN "off" ELSE alarm
    /\ pc' = "done"
    /\ UNCHANGED <<cfgVars, Req, Finished, Successful, intr, LStat, acqLog, qVars,
                   pollVars, loc, delivered, syncRes, sock>>

(***************************************************************************)
(* Loop bodies of the drivers, from the return of ib_poll to the next      *)
(* while test.                                                             *)
(***************************************************************************)
OkPost == <<"ok", 1>>

\* Working state of a loop body; `out` is what the next post inside the
\* completion loop does.
AccX(o) ==
    [ls |-> LStat, sq |-> sq, rq |-> rq, res |-> "ok", out |-> o,
     done |-> loc.done, numSent |-> 0, numRecv |-> 0]

\* Store what the body computed and go on: to okpc, Break, err or exit.
ApplyTo(a, okpc) ==
    /\ LStat' = a.ls
    /\ sq' = a.sq
    /\ rq' = a.rq
    /\ IF a.res = "break" THEN Break
       ELSE /\ pc' = Goto(a.res, okpc, "err")
            /\ UNCHANGED Successful

Apply(a) == ApplyTo(a, "loop")

\* if (n < 0) goto err;   (part_001 only; ib_poll of rdma.c never returns < 0)
PollFailed == ver = "ib" /\ n < 0

IsSuccess(w) == w.status = "SUCCESS"

\* ---- ib_client_atomic ----
H_atomic(acc, w) ==
    LET a == IF IsSuccess(w) THEN [acc EXCEPT !.ls = Credit(@, "rem_r", 8)]
             ELSE do_error(ver, acc, "s")
    IN  IF a.res # "ok" THEN a
        ELSE [ib_post_atomic(a, 0, a.out) EXCEPT !.out = OkPost]

ib_client_atomic ==
    /\ pc = "polled"
    /\ test = "ib_client_atomic"
    /\ \E o \in (IF n > 0 /\ ~Finished THEN PostOutcomes(1) ELSE {OkPost}) :
         /\ AlarmDuring(AlarmIn(o))
         /\ Apply(IF Finished THEN [AccX(o) EXCEPT !.res = "break"]
                  ELSE IF PollFailed THEN [AccX(o) EXCEPT !.res = "fail"]
                  ELSE Scan(H_atomic,
                            [AccX(o) EXCEPT !.ls = max_cqes_update(@, n)], wc))
    /\ UNCHANGED <<cfgVars, Req, intr, devVars, cq, armed, events, pollVars, loc,
                   delivered, ctlVars, sock>>

\* A loop that never looks at the message count.
MsgsDoneNever(ls, role) == FALSE

\* if (Req.no_msgs) if (LStat.<role>.no_msgs + LStat.<role>.no_errs >= Req.no_msgs) break;
MsgsDone(ls, role) ==
    Req.no_msgs # 0 /\ ls[role].no_msgs + ls[role].no_errs >= Req.no_msgs

\* ---- ib_client_bw ----
H_client_bw(acc, w) ==
    IF w.wr_id # WRID_SEND THEN acc
    ELSE IF ~IsSuccess(w) THEN do_error(ver, acc, "s")
    ELSE acc

\* The body up to its ib_post_send: max_cqes is updated first, then n < 0
\* (part_001) and Finished are tested.
client_bw_pre ==
    LET a0 == [AccX(OkPost) EXCEPT !.ls = max_cqes_update(@, n)]
    IN  IF PollFailed THEN [a0 EXCEPT !.res = "fail"]
        ELSE IF Finished THEN [a0 EXCEPT !.res = "break"]
        ELSE LET a1 == Scan(H_client_bw, a0, wc)
             IN  IF a1.res # "ok" THEN a1
                 ELSE IF MsgsDone(a1.ls, "s")
                      THEN [a1 EXCEPT !.res = "break"]
                 ELSE [a1 EXCEPT !.numSent =
                          IF Req.no_msgs # 0 THEN left_to_send(loc.sent, n) ELSE n]

ib_client_bw ==
    /\ pc = "polled"
    /\ test = "ib_client_bw"
    /\ LET pre == client_bw_pre
           k   == IF pre.res = "ok" THEN pre.numSent ELSE 0
       IN  \E out \in PostOutcomes(k) :
             /\ AlarmDuring(AlarmIn(out))
             /\ Apply(IF pre.res = "ok" THEN ib_post_send(pre, k, out) ELSE pre)
             /\ loc' = [loc EXCEPT !.sent = @ + k]
    /\ UNCHANGED <<cfgVars, Req, intr, devVars, cq, armed, events, pollVars,
                   delivered, ctlVars, sock>>

\* ---- ib_server_def ----
H_server_def(acc, w) ==
    IF IsSuccess(w) THEN [acc EXCEPT !.ls = Credit(@, "r", Req.msg_size)]
    ELSE do_error(ver, acc, "r")

\* The body up to its ib_post_recv: Finished is tested first; part_001 tests
\* n < 0 only after the max_cqes update.
server_def_pre ==
    IF Finished THEN [AccX(OkPost) EXCEPT !.res = "break"]
    ELSE LET a0 == [AccX(OkPost) EXCEPT !.ls = max_cqes_update(@, n)]
         IN  IF PollFailed THEN [a0 EXCEPT !.res = "fail"]
             ELSE LET a1 == Scan(H_server_def, a0, wc)
                  IN  IF a1.res # "ok" THEN a1
                      ELSE IF MsgsDone(a1.ls, "r")
                           THEN [a1 EXCEPT !.res = "break"]
                      ELSE [a1 EXCEPT !.numRecv = n]

ib_server_def ==
    /\ pc = "polled"
    /\ test = "ib_server_def"
    /\ LET pre == server_def_pre
           k   == IF pre.res = "ok" THEN pre.numRecv ELSE 0
       IN  \E out \in PostOutcomes(k) :
             /\ AlarmDuring(AlarmIn(out))
             /\ Apply(IF pre.res = "ok" THEN ib_post_recv(pre, k, out) ELSE pre)
    /\ UNCHANGED <<cfgVars, Req, intr, devVars, cq, armed, events, pollVars, loc,
                   delivered, ctlVars, sock>>

\* ---- ib_bi_bw ----
H_bi_bw(acc, w) ==
    CASE w.wr_id = WRID_SEND ->
            LET a == IF ~IsSuccess(w) THEN do_error(ver, acc, "s") ELSE acc
            IN  IF a.res # "ok" THEN a ELSE [a EXCEPT !.numSent = @ + 1]
      [] w.wr_id = WRID_RECV ->
            LET a == IF IsSuccess(w)
                     THEN [acc EXCEPT !.ls = Credit(@, "r", Req.msg_size)]
                     ELSE do_error(ver, acc, "r")
            IN  IF a.res # "ok" THEN a ELSE [a EXCEPT !.numRecv = @ + 1]
      [] OTHER -> acc

bi_bw_pre ==
    IF Finished THEN [AccX(OkPost) EXCEPT !.res = "break"]
    ELSE LET a0 == [AccX(OkPost) EXCEPT !.ls = max_cqes_update(@, n)]
         IN  IF PollFailed THEN [a0 EXCEPT !.res = "fail"]
             ELSE Scan(H_bi_bw, a0, wc)

\* The body up to and with its ib_post_recv; the ib_post_send of the
\* iteration, if there is one, is the next step.
ib_bi_bw ==
    /\ pc = "polled"
    /\ test = "ib_bi_bw"
    /\ LET pre == bi_bw_pre
           kR  == IF pre.res = "ok" THEN pre.numRecv ELSE 0
           kS  == IF pre.res = "ok" THEN pre.numSent ELSE 0
       IN  \E oR \in PostOutcomes(kR) :
             /\ AlarmDuring(AlarmIn(oR))
             /\ ApplyTo(IF kR > 0 THEN ib_post_recv(pre, kR, oR) ELSE pre,
                        IF kS > 0 THEN "post_send" ELSE "loop")
             /\ loc' = [loc EXCEPT !.send = kS]
    /\ UNCHANGED <<cfgVars, Req, intr, devVars, cq, armed, events, pollVars,
                   delivered, ctlVars, sock>>

\* The send that ends an iteration of ib_bi_bw (numSent messages) and of
\* ib_pp_lat_loop (one message, done = 0).
Do_post_send ==
    /\ pc = "post_send"
    /\ \E out \in PostOutcomes(loc.send) :
         /\ AlarmDuring(AlarmIn(out))
         /\ Apply(PostData(Acc, loc.send, out))
    /\ loc' = [loc EXCEPT !.send = 0,
                          !.done = IF test = "ib_pp_lat" THEN 0 ELSE @]
    /\ UNCHANGED <<cfgVars, Req, intr, devVars, cq, armed, events, pollVars,
                   delivered, ctlVars, sock>>

\* ---- ib_pp_lat / ib_pp_lat_loop ----
Or1(d) == IF d \in {0, 2} THEN d + 1 ELSE d
Or2(d) == IF d \in {0, 1} THEN d + 2 ELSE d

H_pp_lat(acc, w) ==
    CASE w.wr_id \in {WRID_SEND, WRID_RDMA} ->
            LET a == IF ~IsSuccess(w) THEN do_error(ver, acc, "s") ELSE acc
            IN  IF a.res # "ok" THEN a ELSE [a EXCEPT !.done = Or1(@)]
      [] w.wr_id = WRID_RECV ->
            LET a == IF IsSuccess(w)
                     THEN [ib_post_recv([acc EXCEPT !.ls = Credit(@, "r", Req.msg_size)],
                                        1, acc.out)
                           EXCEPT !.out = OkPost]
                     ELSE do_error(ver, acc, "r")
            IN  IF a.res # "ok" THEN a ELSE [a EXCEPT !.done = Or2(@)]
      [] OTHER -> acc

HasRecvSuccess(w) ==
    \E i \in 1..Len(w) : w[i].wr_id = WRID_RECV /\ IsSuccess(w[i])

pp_lat_pre(oR) ==
    IF Finished THEN [AccX(oR) EXCEPT !.res = "break"]
    ELSE IF PollFailed THEN [AccX(oR) EXCEPT !.res = "fail"]
    ELSE Scan(H_pp_lat, AccX(oR), wc)

\* The body up to `if (done == 3)`; the send that follows is the next step.
ib_pp_lat ==
    /\ pc = "polled"
    /\ test = "ib_pp_lat"
    /\ \E oR \in (IF ~Finished /\ HasRecvSuccess(wc) THEN PostOutcomes(1) ELSE {OkPost}) :
         LET pre == pp_lat_pre(oR)
             kS  == IF pre.res = "ok" /\ pre.done = 3 THEN 1 ELSE 0
         IN  /\ AlarmDuring(AlarmIn(oR))
             /\ ApplyTo(pre, IF kS > 0 THEN "post_send" ELSE "loop")
             /\ loc' = [loc EXCEPT !.done = pre.done, !.send = kS]
    /\ UNCHANGED <<cfgVars, Req, intr, devVars, cq, armed, events, pollVars,
                   delivered, ctlVars, sock>>

\* ---- ib_client_rdma_read_lat ----
\* part_001 tests n < 0 first; both generations test n == 0 before Finished.
rdma_read_lat_pre ==
    IF PollFailed THEN [AccX(OkPost) EXCEPT !.res = "fail"]
    ELSE IF n = 0 THEN [AccX(OkPost) EXCEPT !.res = "continue"]
    ELSE IF Finished THEN [AccX(OkPost) EXCEPT !.res = "break"]
    ELSE IF wc[1].wr_id # WRID_RDMA THEN [AccX(OkPost) EXCEPT !.res = "continue"]
    ELSE IF IsSuccess(wc[1])
         THEN [AccX(OkPost) EXCEPT
                 !.ls = Credit(Credit(@, "r", Req.msg_size), "rem_s", Req.msg_size)]
         ELSE do_error(ver, AccX(OkPost), "s")

ib_client_rdma_read_lat ==
    /\ pc = "polled"
    /\ test = "ib_client_rdma_read_lat"
    /\ LET pre == rdma_read_lat_pre
           k   == IF pre.res = "ok" THEN 1 ELSE 0
       IN  \E out \in PostOutcomes(k) :
             /\ AlarmDuring(AlarmIn(out))
             /\ Apply(IF k > 0 THEN ib_post_rdma(pre, "RDMA_READ", 1, out)
                      ELSE IF pre.res = "continue" THEN [pre EXCEPT !.res = "ok"]
                      ELSE pre)
    /\ UNCHANGED <<cfgVars, Req, intr, devVars, cq, armed, events, pollVars, loc,
                   delivered, ctlVars, sock>>

\* ---- ib_client_rdma_bw ----
H_rdma_bw(acc, w) ==
    IF IsSuccess(w)
    THEN (IF loc.opcode = "RDMA_READ"
          THEN [acc EXCEPT
                  !.ls = Credit(Credit(@, "r", Req.msg_size), "rem_s", Req.msg_size)]
          ELSE acc)
    ELSE do_error(ver, acc, "s")

rdma_bw_pre ==
    IF Finished THEN [AccX(OkPost) EXCEPT !.res = "break"]
    ELSE IF PollFailed THEN [AccX(OkPost) EXCEPT !.res = "fail"]
    ELSE Scan(H_rdma_bw, [AccX(OkPost) EXCEPT !.ls = max_cqes_update(@, n)], wc)

ib_client_rdma_bw ==
    /\ pc = "polled"
    /\ test = "ib_client_rdma_bw"
    /\ LET pre == rdma_bw_pre
           k   == IF pre.res = "ok" THEN n ELSE 0
       IN  \E out \in PostOutcomes(k) :
             /\ AlarmDuring(AlarmIn(out))
             /\ Apply(IF pre.res = "ok" THEN ib_post_rdma(pre, loc.opcode, k, out)
                      ELSE pre)
    /\ UNCHANGED <<cfgVars, Req, intr, devVars, cq, armed, events, pollVars, loc,
                   delivered, ctlVars, sock>>

\* ---- ib_rdma_write_poll_lat ----
H_write_poll(acc, w) ==
    IF w.wr_id # WRID_RDMA THEN acc
    ELSE IF ~IsSuccess(w) THEN do_error(ver, acc, "s")
    ELSE acc

\* while (!Finished) { *p = locID; *q = locID; if (send) ...
write_poll_top ==
    /\ pc = "loop"
    /\ test = "ib_rdma_write_poll_lat"
    /\ IF Finished
       THEN Break /\ UNCHANGED loc
       ELSE /\ loc' = [loc EXCEPT !.buf = "loc", !.iter = "none"]
            /\ pc' = IF loc.send = 1 THEN "wp_post" ELSE "wp_spin"
            /\ UNCHANGED Successful
    /\ UNCHANGED <<cfgVars, Req, Finished, alarm, intr, LStat, devVars, qVars,
                   pollVars, delivered, ctlVars, sock>>

\* ib_post_rdma(&ibdev, IBV_WR_RDMA_WRITE, 1);
write_poll_post ==
    /\ pc = "wp_post"
    /\ \E out \in PostOutcomes(1) :
         LET a == ib_post_rdma(Acc, "RDMA_WRITE", 1, out)
         IN  /\ AlarmDuring(AlarmIn(out))
             /\ LStat' = a.ls
             /\ sq' = a.sq
             /\ pc' = Goto(a.res, "wp_poll", "err")
             /\ loc' = [loc EXCEPT !.iter = IF PostedBy(out) = 1 THEN "posted" ELSE @]
    /\ UNCHANGED <<cfgVars, Req, Successful, intr, devVars, rq, cq, armed, events,
                   pollVars, delivered, ctlVars, sock>>

\* if (Finished) break; n = ibv_poll_cq(ibdev.cq, 2, wc); if (n < 0) error;
\* for each completion ...
write_poll_poll ==
    /\ pc = "wp_poll"
    /\ IF Finished
       THEN Break /\ UNCHANGED <<LStat, cq, pollVars>>
       ELSE \E o \in {"ok", "fail"} :
              LET k == IF o = "ok" THEN Min(2, Len(cq)) ELSE 0
                  a == IF o = "ok" THEN Scan(H_write_poll, Acc, SubSeq(cq, 1, k))
                       ELSE [Acc EXCEPT !.res = OnFailure(ver)]
              IN  /\ wc' = SubSeq(cq, 1, k)
                  /\ cq' = SubSeq(cq, k + 1, Len(cq))
                  /\ n' = IF o = "ok" THEN k ELSE -1
                  /\ LStat' = a.ls
                  /\ pc' = Goto(a.res, "wp_spin", "err")
                  /\ UNCHANGED Successful
    /\ UNCHANGED <<cfgVars, Req, Finished, alarm, intr, devVars, sq, rq, armed,
                   events, loc, delivered, ctlVars, sock>>

\* while (!Finished) if (*p == remID && *q == remID) break;
\* LStat.r.no_bytes += Req.msg_size; LStat.r.no_msgs++; send = 1;
write_poll_spin ==
    /\ pc = "wp_spin"
    /\ Finished \/ loc.buf = "rem"
    /\ LStat' = Credit(LStat, "r", Req.msg_size)
    /\ loc' = [loc EXCEPT !.send = 1]
    /\ pc' = "loop"
    /\ UNCHANGED <<cfgVars, Req, Finished, Successful, alarm, intr, devVars, qVars,
                   pollVars, delivered, ctlVars, sock>>

(***************************************************************************)
(* Socket drivers (src/ip.c).                                              *)
(***************************************************************************)
StreamTests == {"socket_client_bw", "socket_server_bw",
                "socket_client_lat", "socket_server_lat"}

\* The I/O calls of one loop iteration, in order.
IoSeq(t) ==
    CASE t = "socket_client_bw"    -> <<"send_full">>
      [] t = "socket_server_bw"    -> <<"recv_full">>
      [] t = "socket_client_lat"   -> <<"send_full", "recv_full">>
      [] t = "socket_server_lat"   -> <<"recv_full", "send_full">>
      [] t = "datagram_client_bw"  -> <<"sendto">>
      [] t = "datagram_server_bw"  -> <<"recv">>
      [] t = "datagram_client_lat" -> <<"sendto", "recv">>
      [] OTHER                     -> <<"recvfrom", "sendto">>

IsSendOp(op) == op \in {"send_full", "sendto"}

\* Steps of socket_server_init / datagram_server_init that can fail.
ServerInitFailPoints(t) ==
    IF t \in StreamTests
    THEN {"socket", "bind", "send_mesg", "accept", "set_socket_buffer_size"}
    ELSE {"socket", "bind", "set_socket_buffer_size", "send_mesg"}

\* socket_server_init: listenFD is closed on every path after socket();
\* the accepted fd is closed again if set_socket_buffer_size fails.
socket_server_init(st, fail) ==
    IF fail = "socket" THEN [st EXCEPT !.res = "fail"]
    ELSE LET l  == Acquire(st, "listenFD")
             lc == <<"listenFD", l.ibdev["listenFD"]>>
         IN  IF fail \in {"bind", "send_mesg", "accept"}
             THEN [l EXCEPT !.rel = Append(@, lc), !.res = "fail"]
             ELSE LET a  == Acquire(l, "sockFD")
                      ac == <<"sockFD", a.ibdev["sockFD"]>>
                  IN  IF fail = "set_socket_buffer_size"
                      THEN [a EXCEPT !.rel = @ \o <<ac, lc>>, !.res = "fail"]
                      ELSE [a EXCEPT !.rel = Append(@, lc), !.res = "ok"]

\* datagram_server_init: err: close(*fd); return 0;
datagram_server_init(st, fail) ==
    IF fail = "socket" THEN [st EXCEPT !.res = "fail"]
    ELSE LET a  == Acquire(st, "sockFD")
             ac == <<"sockFD", a.ibdev["sockFD"]>>
         IN  IF fail # "none"
             THEN [a EXCEPT !.rel = Append(@, ac), !.res = "fail"]
             ELSE [a EXCEPT !.res = "ok"]

\* socket_client_init / datagram_client_init: every failure ends the process.
client_init(st, fail) ==
    IF fail = "socket" THEN [st EXCEPT !.res = "exit"]
    ELSE LET a == Acquire(st, "sockFD")
         IN  IF fail # "none" THEN [a EXCEPT !.res = "exit"]
             ELSE [a EXCEPT !.res = "ok"]

FDS0 == [k \in {"listenFD", "sockFD"} |-> 0]

\* What the server driver does when its init returns 0: datagram_server_lat
\* goes to err, the other three return.
InitFailedPc(t) == IF t = "datagram_server_lat" THEN "err" ELSE "done"

Do_socket_init ==
    /\ pc = "open"
    /\ test \in SockTests
    /\ \E fail \in ServerInitFailPoints(test) \cup {"none"} :
         LET st == [ibdev |-> FDS0, acq |-> acqLog, rel |-> relLog, res |-> "ok"]
             r  == IF client THEN client_init(st, fail)
                   ELSE IF test \in StreamTests THEN socket_server_init(st, fail)
                   ELSE datagram_server_init(st, fail)
         IN  /\ acqLog' = r.acq
             /\ relLog' = r.rel
             /\ sock' = [sock EXCEPT !.fd = r.ibdev["sockFD"]]
             /\ pc' = Goto(r.res, "sync", InitFailedPc(test))
    /\ UNCHANGED <<cfgVars, Req, Finished, Successful, alarm, intr, LStat, ibdev,
                   qVars, pollVars, loc, delivered, ctlVars>>

\* while (!Finished) of the socket drivers; the loop body starts with its
\* first I/O call.
Sock_While ==
    /\ pc = "sockloop"
    /\ IF Finished THEN Break /\ UNCHANGED <<loc, sock>>
       ELSE /\ pc' = "io"
            /\ loc' = [loc EXCEPT !.iter = 1]
            /\ sock' = [sock EXCEPT !.left = Req.msg_size]
            /\ UNCHANGED Successful
    /\ UNCHANGED <<cfgVars, Req, Finished, alarm, intr, LStat, devVars, qVars,
                   pollVars, delivered, ctlVars>>

CurOp == IoSeq(test)[loc.iter]

IsStreamOp(op) == op \in {"send_full", "recv_full"}

\* One system call of the current operation returns `i`; `hit` says that the
\* alarm arrived during it.
\*   stream (send_full / recv_full): i < 0 returns i; i = 0 calls
\*   set_finished(); otherwise the count goes down and the helper loops;
\*   datagram: the call's value is the operation's value.
IoReturn(i, hit) ==
    IF IsStreamOp(CurOp) /\ i >= 0
    THEN /\ sock' = [sock EXCEPT !.left = @ - i]
         /\ Finished' = (Finished \/ hit \/ i = 0)
         /\ pc' = "io"
         /\ UNCHANGED n
    ELSE /\ n' = i
         /\ Finished' = (Finished \/ hit)
         /\ pc' = "iodone"
         /\ UNCHANGED sock

\* Values a call that transfers can return: any part of what is left on a
\* stream; on a datagram socket the size of the datagram, which is msg_size
\* or less.
IoValues ==
    IF IsStreamOp(CurOp) THEN 0..sock.left ELSE {Req.msg_size - 1, Req.msg_size}

\* A send_full / recv_full that gives up without looking at Finished or at
\* what is left.
FullLoopEndsAlways == IsStreamOp(CurOp)

\* send_full / recv_full test `while (!Finished && n)` before each system
\* call and return len-n when it fails.
FullLoopEnds == IsStreamOp(CurOp) /\ (Finished \/ sock.left = 0)

\* The current I/O call is made: it transfers, fails, is interrupted by the
\* alarm, or the main path sleeps in it.
Sock_io ==
    /\ pc = "io"
    /\ IF FullLoopEnds
       THEN /\ n' = Req.msg_size - sock.left
            /\ pc' = "iodone"
            /\ UNCHANGED <<Finished, alarm, sock, delivered>>
       ELSE \/ /\ delivered < MaxDeliver
               /\ \E i \in IoValues \cup {-1} : IoReturn(i, FALSE)
               /\ delivered' = delivered + 1
               /\ UNCHANGED alarm
            \/ /\ alarm = "armed"
               /\ IoReturn(-1, TRUE)
               /\ alarm' = "fired"
               /\ UNCHANGED delivered
            \/ /\ pc' = "in_io"
               /\ UNCHANGED <<Finished, alarm, sock, delivered, n>>
    /\ UNCHANGED <<cfgVars, Req, Successful, intr, LStat, devVars, qVars, wc, loc,
                   ctlVars>>

\* The sleeping call returns: interrupted by the alarm, or with a transfer.
Sock_wake ==
    /\ pc = "in_io"
    /\ \/ /\ intr
          /\ IoReturn(-1, FALSE)
          /\ UNCHANGED delivered
       \/ /\ delivered < MaxDeliver
          /\ \E i \in IoValues \cup {-1} : IoReturn(i, FALSE)
          /\ delivered' = delivered + 1
    /\ intr' = FALSE
    /\ UNCHANGED <<cfgVars, Req, Successful, alarm, LStat, devVars, qVars, wc, loc,
                   ctlVars>>

\* if (Finished) break; if (n < 0) { errs++; continue; } else { bytes += n;
\* msgs++; }  followed by the next call of the iteration, if any.
Sock_account ==
    /\ pc = "iodone"
    /\ LET role == IF IsSendOp(CurOp) THEN "s" ELSE "r"
       IN  IF Finished THEN Break /\ UNCHANGED <<LStat, loc, sock>>
           ELSE IF n < 0
           THEN /\ LStat' = [LStat EXCEPT ![role].no_errs = @ + 1]
                /\ pc' = "sockloop"
                /\ UNCHANGED <<Successful, loc, sock>>
           ELSE /\ LStat' = [LStat EXCEPT ![role].no_bytes = @ + n,
                                          ![role].no_msgs = @ + 1]
                /\ IF loc.iter < Len(IoSeq(test))
                   THEN /\ loc' = [loc EXCEPT !.iter = @ + 1]
                        /\ sock' = [sock EXCEPT !.left = Req.msg_size]
                        /\ pc' = "io"
                   ELSE /\ pc' = "sockloop"
                        /\ UNCHANGED <<loc, sock>>
                /\ UNCHANGED Successful
    /\ UNCHANGED <<cfgVars, Req, Finished, alarm, intr, devVars, qVars, pollVars,
                   delivered, ctlVars>>

\* err: stop_timing(); exchange_results(); free(buf); close(sockFD);
Sock_Teardown ==
    /\ pc = "err"
    /\ test \in SockTests
    /\ calls' = calls \o <<"stop_timing", "exchange_results">>
    /\ relLog' = IF sock.fd # 0 THEN Append(relLog, <<"sockFD", sock.fd>>) ELSE relLog
    /\ alarm' = IF alarm = "armed" THEN "off" ELSE alarm
    /\ pc' = "done"
    /\ UNCHANGED <<cfgVars, Req, Finished, Successful, intr, LStat, ibdev, acqLog,
                   qVars, pollVars, loc, delivered, syncRes, sock>>

(***************************************************************************)
(* The system.                                                             *)
(***************************************************************************)
\* Steps of the main execution path up to and with the barrier.
Setup ==
    \/ Do_ib_open \/ Do_ib_mralloc \/ Do_ib_init \/ Do_post_recv0
    \/ Do_socket_init \/ Do_synchronize

\* Steps of the main execution path after the barrier.
Measure ==
    \/ Do_prime \/ While_Finished \/ Do_pause
    \/ Do_ib_poll \/ Do_get_cq_event \/ Wake_get_cq_event
    \/ ib_client_atomic \/ ib_client_bw \/ ib_server_def \/ ib_bi_bw
    \/ ib_pp_lat \/ Do_post_send \/ ib_client_rdma_read_lat \/ ib_client_rdma_bw
    \/ write_poll_top \/ write_poll_post \/ write_poll_poll \/ write_poll_spin
    \/ Teardown
    \/ Sock_While \/ Sock_io \/ Sock_wake \/ Sock_account \/ Sock_Teardown

\* Steps of the alarm, the adapter and the peer.
Environment == Alarm \/ HcaComplete \/ PeerMessage \/ PeerMarker

Next == Setup \/ Measure \/ Environment

Spec == Init /\ [][Next]_vars

\* After the barrier the main path runs whenever it can and the adapter
\* completes every work request it was given; nothing is assumed of the peer,
\* whose own test may have ended.
SpecFair == Spec /\ WF_vars(Measure) /\ WF_vars(HcaComplete)

(***************************************************************************)
(* ib_init on both ends of the control channel.                            *)
(***************************************************************************)
\* The variables of one endpoint's driver.
driverVars == <<test, ver, client, Req, pc, Finished, Successful, alarm, intr,
                LStat, ibdev, acqLog, relLog, sq, rq, cq, armed, events, wc, n,
                loc, delivered, calls, syncRes, sock>>

\* A client that reads the peer's context before it sends its own.
ClientOrderRecvFirst == [op1 |-> "recv", op2 |-> "send"]

\* if (is_client()) { ...; send_mesg; recv_mesg; ... }
ClientOrder == [op1 |-> "send", op2 |-> "recv"]

\* else { recv_mesg; ...; send_mesg; }
ServerOrder == [op1 |-> "recv", op2 |-> "send"]

IniOrder(side) == IF side = "c" THEN ClientOrder ELSE ServerOrder

IniOut(side) == IF side = "c" THEN "c2s" ELSE "s2c"

IniIn(side) == IF side = "c" THEN "s2c" ELSE "c2s"

IniOps == {"op1", "op2"}

IniAdvance(p) == IF p = "op1" THEN "op2" ELSE "prepare"

\* A failed send_mesg / recv_mesg / ib_prepare: ib_init returns 0 (part_001)
\* or error() leaves the process (rdma.c).
IniFail(side) ==
    ini' = [ini EXCEPT ![side].pc = IF OnFailure(ver) = "exit" THEN "exit" ELSE "ret0"]

IniAt(side, op) == ini[side].pc \in IniOps /\ IniOrder(side)[ini[side].pc] = op

\* enc_init; enc_ibcon(&ibdev->lcon); send_mesg(&ibcon, sizeof(ibcon), ...)
ini_send(side) ==
    /\ IniAt(side, "send")
    /\ IF ini.up
       THEN ini' = [ini EXCEPT ![IniOut(side)] = Append(@, enc_ibcon(ini[side].lcon)),
                               ![side].pc = IniAdvance(@)]
       ELSE IniFail(side)

\* recv_mesg(&ibcon, sizeof(ibcon), ...); dec_init; dec_ibcon(&ibdev->rcon):
\* waits for the peer's message while the connection is up.
ini_recv(side) ==
    /\ IniAt(side, "recv")
    /\ IF ini[IniIn(side)] # <<>>
       THEN ini' = [ini EXCEPT ![IniIn(side)] = Tail(@),
                               ![side].rcon = dec_ibcon(Head(ini[IniIn(side)])),
                               ![side].pc = IniAdvance(@)]
       ELSE ~ini.up /\ IniFail(side)

Ini_send == (\E side \in {"c", "s"} : ini_send(side)) /\ UNCHANGED <<driverVars, xr, vf, tcp, wrs, pp, qps, lsn, bi, ctl>>

Ini_recv == (\E side \in {"c", "s"} : ini_recv(side)) /\ UNCHANGED <<driverVars, xr, vf, tcp, wrs, pp, qps, lsn, bi, ctl>>

\* ib_prepare(ibdev), then return.
Ini_prepare ==
    /\ \E side \in {"c", "s"} :
         /\ ini[side].pc = "prepare"
         /\ \/ ini' = [ini EXCEPT ![side].pc = "ret1"]
            \/ IniFail(side)
    /\ UNCHANGED <<driverVars, xr, vf, tcp, wrs, pp, qps, lsn, bi, ctl>>

\* The control connection breaks.
Ini_drop ==
    /\ ini.up
    /\ ini' = [ini EXCEPT !.up = FALSE]
    /\ UNCHANGED <<driverVars, xr, vf, tcp, wrs, pp, qps, lsn, bi, ctl>>

IniInit ==
    /\ \E v \in Vers :
         DriverInit(CFG("ib_bi_bw", v, TRUE, REQ(TRUE, 0, MaxMsgSize, 0),
                        LOC("RC", "IO_SR", "SEND")))
    /\ \E lc, ls \in LocalContexts :
         ini = [INI0 EXCEPT !.c = IniSide(lc), !.s = IniSide(ls)]
    /\ xr = XR0
    /\ vf = VF0
    /\ tcp = TCP0
    /\ wrs = WRS0
    /\ pp = PP0
    /\ qps = QPS0
    /\ lsn = LSN0
    /\ bi = BI0
    /\ ctl = CTL0

IniNext == Ini_send \/ Ini_recv \/ Ini_prepare \/ Ini_drop

\* Both ends of one ib_init handshake.
SpecIni == IniInit /\ [][IniNext]_vars

(***************************************************************************)
(* exchange_results on both ends of the control channel.                   *)
(***************************************************************************)
\* An exchange_results that reads the peer's block before it writes its own.
XrOrderReadFirst == [op1 |-> "read", op2 |-> "write"]

\* Each side writes its statistics block, then reads the peer's.
XrOrder == [op1 |-> "write", op2 |-> "read"]

XrAt(side, op) == xr[side].pc \in IniOps /\ XrOrder[xr[side].pc] = op

XrAdvance(p) == IF p = "op1" THEN "op2" ELSE "ret"

\* An I/O error on the control channel is fatal.
XrFail(side) == xr' = [xr EXCEPT ![side].pc = "failed"]

xr_write(side) ==
    /\ XrAt(side, "write")
    /\ IF xr.up
       THEN xr' = [xr EXCEPT ![IniOut(side)] = Append(@, enc_stat(xr[side].LStat)),
                             ![side].pc = XrAdvance(@)]
       ELSE XrFail(side)

xr_read(side) ==
    /\ XrAt(side, "read")
    /\ IF xr[IniIn(side)] # <<>>
       THEN xr' = [xr EXCEPT ![IniIn(side)] = Tail(@),
                             ![side].RStat = dec_stat(Head(xr[IniIn(side)])),
                             ![side].pc = XrAdvance(@)]
       ELSE ~xr.up /\ XrFail(side)

Xr_write == (\E side \in {"c", "s"} : xr_write(side)) /\ UNCHANGED <<driverVars, ini, vf, tcp, wrs, pp, qps, lsn, bi, ctl>>

Xr_read == (\E side \in {"c", "s"} : xr_read(side)) /\ UNCHANGED <<driverVars, ini, vf, tcp, wrs, pp, qps, lsn, bi, ctl>>

Xr_drop ==
    /\ xr.up
    /\ xr' = [xr EXCEPT !.up = FALSE]
    /\ UNCHANGED <<driverVars, ini, vf, tcp, wrs, pp, qps, lsn, bi, ctl>>

XrInit ==
    /\ DriverInit(CFG("ib_bi_bw", "ib", TRUE, REQ(TRUE, 0, MaxMsgSize, 0),
                      LOC("RC", "IO_SR", "SEND")))
    /\ ini = INI0
    /\ \E lc, ls \in WireStats :
         xr = [XR0 EXCEPT !.c = XrSide(lc), !.s = XrSide(ls)]
    /\ vf = VF0
    /\ tcp = TCP0
    /\ wrs = WRS0
    /\ pp = PP0
    /\ qps = QPS0
    /\ lsn = LSN0
    /\ bi = BI0
    /\ ctl = CTL0

XrNext == Xr_write \/ Xr_read \/ Xr_drop

\* Both ends of one exchange_results.
SpecXr == XrInit /\ [][XrNext]_vars

(***************************************************************************)
(* run_client_ver_rc_fetch_add and run_client_ver_rc_compare_swap, from    *)
(* the first post after the barrier to the end of the measurement loop,    *)
(* with the responder that executes the atomics on the server's word.      *)
(***************************************************************************)
VfLeave == IF ver = "rdma" THEN "exit" ELSE "err"

IsCas(s) == s.kind = "compare_swap"

\* A test that reports the mismatch and goes on to the next completion.
vf_mismatchIgnore(s, res) ==
    IF s.last # res THEN [s EXCEPT !.mism = TRUE] ELSE s

\* if (last != res) error(0, "... mismatch ...");   (rdma.c, ends the process)
\* if (last != res) { error("... doesn't match ..."); goto err; }   (part_001)
vf_mismatch(s, res) ==
    IF s.last # res THEN [s EXCEPT !.mism = TRUE, !.pc = VfLeave] ELSE s

\* ib_post_fetch_add(ibdev, x, x*8, 1) / ib_post_compare_swap(ibdev, x, x*8,
\* cur, next).  out is "ok", "EINTR" (the alarm arrived in ibv_post_send) or
\* "fail".
vf_post(s, x, out) ==
    LET op == [wr_id |-> x,
               compare_add |-> IF IsCas(s) THEN s.cur ELSE <<0, 0, 0, 1>>,
               swap |-> IF IsCas(s) THEN s.next ELSE Z64]
    IN  CASE out = "ok" ->
               [s EXCEPT !.sq = Append(@, op), !.posts = Append(@, op),
                         !.s.no_bytes = @ + 8, !.s.no_msgs = @ + 1]
          [] out = "EINTR" -> [s EXCEPT !.Finished = TRUE]
          [] OTHER -> [s EXCEPT !.pc = VfLeave]

\* A first loop that posts the same compare and swap values every time.
vf_primeStale(s, out) ==
    LET p == vf_post(s, s.i, out)
        q == IF p.pc # "prime" THEN p ELSE [p EXCEPT !.i = @ + 1]
    IN  IF q.pc = "prime" /\ q.i = q.rd_atomic THEN [q EXCEPT !.pc = "loop"] ELSE q

\* for (i = 0; i < Req.rd_atomic; ++i) { post; cur = next; next = cur + 1; }
\* one iteration.
vf_prime(s, out) ==
    LET p == vf_post(s, s.i, out)
        q == IF p.pc # "prime" THEN p
             ELSE [p EXCEPT !.cur = IF IsCas(p) THEN p.next ELSE @,
                            !.next = IF IsCas(p) THEN Inc64(p.next) ELSE @,
                            !.i = @ + 1]
    IN  IF q.pc = "prime" /\ q.i = q.rd_atomic THEN [q EXCEPT !.pc = "loop"] ELSE q

\* One iteration of for (i = 0; i < n; ++i) over the polled completions.
vf_step(s, w, out) ==
    LET a == IF IsSuccess(w)
             THEN [s EXCEPT !.rem_r.no_bytes = @ + 8, !.rem_r.no_msgs = @ + 1]
             ELSE [s EXCEPT !.s.no_errs = @ + 1, !.pc = VfLeave]
        res == a.result[w.wr_id]
        o == vf_mismatch([a EXCEPT !.olds = Append(@, res),
                                   !.seen = Append(@, w.wr_id)], res)
        l == [o EXCEPT !.last = IF IsCas(o)
                                THEN (IF o.last # Z64 THEN Inc64(o.last) ELSE SwapSeed)
                                ELSE Inc64(o.last),
                       !.next = IF IsCas(o) THEN Inc64(o.cur) ELSE @]
        p == vf_post(l, w.wr_id, out)
    IN  IF a.pc # "scan" THEN a
        ELSE IF o.pc # "scan" THEN o
        ELSE IF p.pc # "scan" THEN p
        ELSE [p EXCEPT !.cur = IF IsCas(p) THEN p.next ELSE @]

\* The for loop; the post numbered bad has the outcome out.
RECURSIVE VfScan(_, _, _, _)
VfScan(s, ws, bad, out) ==
    IF ws = <<>> \/ s.pc # "scan" THEN s
    ELSE VfScan(vf_step(s, Head(ws), IF bad = 1 THEN out ELSE "ok"),
                Tail(ws), bad - 1, out)

VfBreak(s) == [s EXCEPT !.pc = "err", !.Successful = (ver = "ib")]

\* while (!Finished) { n = ib_poll(...); if (Finished) break; ... }
vf_body(s, pollout, bad, out) ==
    IF s.Finished THEN VfBreak(s)
    ELSE CASE pollout = "fail"  -> [s EXCEPT !.pc = VfLeave]
           [] pollout = "EINTR" -> VfBreak([s EXCEPT !.Finished = TRUE])
           [] OTHER ->
                LET k  == Min(Len(s.cq), NCQE)
                    s0 == [s EXCEPT !.pc = "scan",
                                    !.cq = SubSeq(@, k + 1, Len(@)),
                                    !.max_cqes = IF k > @ THEN k ELSE @]
                    s1 == VfScan(s0, SubSeq(s.cq, 1, k), bad, out)
                IN  IF s1.pc = "scan" THEN [s1 EXCEPT !.pc = "loop"] ELSE s1

\* The responder executes the oldest outstanding atomic on its word and the
\* original value lands in the slot the request named.
hca_atomic(s, st) ==
    LET op == Head(s.sq)
        t  == [s EXCEPT !.sq = Tail(@), !.ndeliv = @ + 1,
                        !.cq = Append(@, WC(op.wr_id, st))]
    IN  IF st # "SUCCESS" THEN [t EXCEPT !.errs = TRUE]
        ELSE [t EXCEPT !.result[op.wr_id] = s.word,
                       !.word = IF IsCas(s)
                                THEN (IF s.word = op.compare_add THEN op.swap ELSE @)
                                ELSE Add64(@, op.compare_add)]

VfRunning == vf.pc \in {"prime", "loop"}

Vf_prime ==
    /\ vf.pc = "prime"
    /\ \E out \in {"ok", "EINTR", "fail"} : vf' = vf_prime(vf, out)
    /\ UNCHANGED <<driverVars, ini, xr, tcp, wrs, pp, qps, lsn, bi, ctl>>

Vf_body ==
    /\ vf.pc = "loop"
    /\ \E pollout \in {"ok", "EINTR", "fail"}, bad \in 0..NCQE, out \in {"EINTR", "fail"} :
         /\ (pollout = "ok" /\ ~vf.Finished) => vf.cq # <<>>
         /\ vf' = vf_body(vf, pollout, bad, out)
    /\ UNCHANGED <<driverVars, ini, xr, tcp, wrs, pp, qps, lsn, bi, ctl>>

Vf_alarm ==
    /\ VfRunning /\ ~vf.Finished
    /\ vf' = [vf EXCEPT !.Finished = TRUE]
    /\ UNCHANGED <<driverVars, ini, xr, tcp, wrs, pp, qps, lsn, bi, ctl>>

Vf_hca ==
    /\ VfRunning /\ vf.sq # <<>> /\ vf.ndeliv < MaxDeliver
    /\ \E st \in Statuses : vf' = hca_atomic(vf, st)
    /\ UNCHANGED <<driverVars, ini, xr, tcp, wrs, pp, qps, lsn, bi, ctl>>

\* A completion queue that hands two completions over in the other order.
Vf_reorder ==
    /\ VfRunning /\ Len(vf.cq) >= 2
    /\ vf' = [vf EXCEPT !.cq = <<@[2], @[1]>> \o SubSeq(@, 3, Len(@)),
                        !.inorder = FALSE]
    /\ UNCHANGED <<driverVars, ini, xr, tcp, wrs, pp, qps, lsn, bi, ctl>>

VfInit ==
    /\ \E v \in Vers :
         DriverInit(CFG("ib_client_atomic", v, TRUE, REQ(TRUE, 0, MaxMsgSize, 0),
                        LOC("RC", "IO_SR", "ATOMIC")))
    /\ ini = INI0
    /\ xr = XR0
    /\ \E kind \in VerKinds, rd \in 1..DevMaxRdAtom : vf = VF(kind, rd)
    /\ tcp = TCP0
    /\ wrs = WRS0
    /\ pp = PP0
    /\ qps = QPS0
    /\ lsn = LSN0
    /\ bi = BI0
    /\ ctl = CTL0

VfNext == Vf_prime \/ Vf_body \/ Vf_alarm \/ Vf_hca \/ Vf_reorder

\* One atomic verification client and its responder.
SpecVer == VfInit /\ [][VfNext]_vars

(***************************************************************************)
(* socket_client_bw and socket_server_bw on one connection, from the        *)
(* barrier to the end of both loops.                                        *)
(***************************************************************************)
TcpRole(side) == IF side = "c" THEN "s" ELSE "r"

\* while (!Finished) { n = send_full / recv_full (sockFD, buf, Req.msg_size);
tcp_while(t, side) ==
    IF t[side].Finished
    THEN [t EXCEPT ![side].pc = "done", ![side].Successful = TRUE]
    ELSE [t EXCEPT ![side].pc = "io", ![side].left = MaxMsgSize,
                   !.started = IF side = "c" THEN @ + 1 ELSE @]

\* One round of while (!Finished && n) in send_full / recv_full: the loop
\* ends with len-n, or the system call returns i (i < 0: return i; i = 0:
\* set_finished()).
tcp_full(t, side, i) ==
    IF t[side].Finished \/ t[side].left = 0
    THEN [t EXCEPT ![side].n = MaxMsgSize - t[side].left, ![side].pc = "iodone"]
    ELSE IF i < 0
    THEN [t EXCEPT ![side].n = i, ![side].pc = "iodone", !.ioerr = TRUE]
    ELSE [t EXCEPT ![side].left = @ - i,
                   ![side].Finished = (i = 0),
                   !.pipe = IF side = "c" THEN @ + i ELSE @ - i]

\* What write() / read() can return now: write takes what fits, read gives
\* what is there, or 0 once the client has closed its end.
TcpValues(t, side) ==
    IF side = "c" THEN 1..Min(t.c.left, PipeCap - t.pipe)
    ELSE IF t.pipe > 0 THEN 1..Min(t.s.left, t.pipe)
    ELSE IF t.c.pc = "done" THEN {0} ELSE {}

\* if (Finished) break; if (n < 0) { no_errs++; continue; }
\* else { no_bytes += n; no_msgs++; }
tcp_account(t, side) ==
    LET role == TcpRole(side)
    IN  IF t[side].Finished
        THEN [t EXCEPT ![side].pc = "done", ![side].Successful = TRUE]
        ELSE IF t[side].n < 0
        THEN [t EXCEPT ![side].LStat[role].no_errs = @ + 1, ![side].pc = "loop"]
        ELSE [t EXCEPT ![side].LStat[role].no_bytes = @ + t[side].n,
                       ![side].LStat[role].no_msgs = @ + 1,
                       ![side].pc = "loop"]

TcpSides == {"c", "s"}

Tcp_while ==
    /\ \E side \in TcpSides :
         /\ tcp[side].pc = "loop"
         /\ (side = "c" /\ ~tcp.c.Finished) => tcp.started < MaxDeliver
         /\ (side = "s" /\ ~tcp.s.Finished)
              => tcp.s.LStat.r.no_msgs + tcp.s.LStat.r.no_errs <= MaxDeliver
         /\ tcp' = tcp_while(tcp, side)
    /\ UNCHANGED <<driverVars, ini, xr, vf, wrs, pp, qps, lsn, bi, ctl>>

Tcp_full ==
    /\ \E side \in TcpSides :
         /\ tcp[side].pc = "io"
         /\ IF tcp[side].Finished \/ tcp[side].left = 0
            THEN tcp' = tcp_full(tcp, side, 0)
            ELSE \E i \in TcpValues(tcp, side) \cup {-1} : tcp' = tcp_full(tcp, side, i)
    /\ UNCHANGED <<driverVars, ini, xr, vf, wrs, pp, qps, lsn, bi, ctl>>

Tcp_account ==
    /\ \E side \in TcpSides :
         /\ tcp[side].pc = "iodone"
         /\ tcp' = tcp_account(tcp, side)
    /\ UNCHANGED <<driverVars, ini, xr, vf, wrs, pp, qps, lsn, bi, ctl>>

\* The duration timer of one end fires.
Tcp_alarm ==
    /\ \E side \in TcpSides :
         /\ tcp[side].pc \in {"loop", "io", "iodone"}
         /\ ~tcp[side].Finished
         /\ tcp' = [tcp EXCEPT ![side].Finished = TRUE]
    /\ UNCHANGED <<driverVars, ini, xr, vf, wrs, pp, qps, lsn, bi, ctl>>

TcpInit ==
    /\ DriverInit(CFG("socket_client_bw", "ib", TRUE, REQ(TRUE, 0, MaxMsgSize, 0),
                      LOC("RC", "IO_SR", "SEND")))
    /\ ini = INI0
    /\ xr = XR0
    /\ vf = VF0
    /\ tcp = TCP("loop")
    /\ wrs = WRS0
    /\ pp = PP0
    /\ qps = QPS0
    /\ lsn = LSN0
    /\ bi = BI0
    /\ ctl = CTL0

TcpNext == Tcp_while \/ Tcp_full \/ Tcp_account \/ Tcp_alarm

\* One TCP bandwidth test, both ends.
SpecTcp == TcpInit /\ [][TcpNext]_vars

(***************************************************************************)
(* The post functions on one queue pair, for every message size around the  *)
(* inline limit.                                                            *)
(***************************************************************************)
WrsRoom == Len(wrs.posted) < 2

Wr_post_send ==
    /\ WrsRoom
    /\ wrs' = [wrs EXCEPT !.posted = Append(@, wr_send(wrs))]
    /\ UNCHANGED <<driverVars, ini, xr, vf, tcp, pp, qps, lsn, bi, ctl>>

Wr_post_rdma ==
    /\ WrsRoom
    /\ \E opcode \in RdmaOpcodes :
         wrs' = [wrs EXCEPT !.posted = Append(@, wr_rdma(wrs, opcode))]
    /\ UNCHANGED <<driverVars, ini, xr, vf, tcp, pp, qps, lsn, bi, ctl>>

Wr_post_atomic ==
    /\ WrsRoom
    /\ \E opcode \in AtomicOpcodes :
         wrs' = [wrs EXCEPT !.posted = Append(@, wr_atomic(wrs, opcode, 0))]
    /\ UNCHANGED <<driverVars, ini, xr, vf, tcp, pp, qps, lsn, bi, ctl>>

WrsInit ==
    /\ DriverInit(CFG("ib_client_bw", "rdma", TRUE, REQ(TRUE, 0, MaxMsgSize, 0),
                      LOC("RC", "IO_SR", "SEND")))
    /\ ini = INI0
    /\ xr = XR0
    /\ vf = VF0
    /\ tcp = TCP0
    /\ \E maxinline \in 0..MaxMsgSize, msg_size \in 0..(MaxMsgSize + 1) :
         wrs = WRS(maxinline, msg_size)
    /\ pp = PP0
    /\ qps = QPS0
    /\ lsn = LSN0
    /\ bi = BI0
    /\ ctl = CTL0

WrsNext == Wr_post_send \/ Wr_post_rdma \/ Wr_post_atomic

\* The work requests of one queue pair.
SpecWrs == WrsInit /\ [][WrsNext]_vars

(***************************************************************************)
(* ib_pp_lat_loop on both ends of one connection (IO_SR), from the barrier  *)
(* to the end of both loops.                                                *)
(***************************************************************************)
PpOut(side) == IF side = "c" THEN "c2s" ELSE "s2c"

\* ib_post_send(ibdev, 1); done = 0;
pp_post(t, side) ==
    [t EXCEPT ![side].s_no_msgs = @ + 1, ![side].unsig = @ + 1,
              ![side].out = @ + 1, ![side].done = 0,
              ![PpOut(side)] = @ + 1]

\* A loop that posts as soon as an inbound has arrived.
pp_fireOnInbound(d) == d >= 2

\* if (done == 3)
pp_fire(d) == d = 3

\* switch (id) of the for loop, for one completion.
\* A loop that counts an inbound message and posts no new receive for it.
pp_wcNoRepost(q, w) ==
    CASE w.status # "SUCCESS" -> [q EXCEPT !.pc = "err"]
      [] w.wr_id \in {WRID_SEND, WRID_RDMA} -> [q EXCEPT !.done = Or1(@), !.out = @ - 1]
      [] w.wr_id = WRID_RECV -> [q EXCEPT !.r_no_msgs = @ + 1, !.done = Or2(@)]
      [] OTHER -> q

\* A completion with an error status goes to do_error, which ends the loop.
pp_wc(q, w) ==
    CASE w.status # "SUCCESS" -> [q EXCEPT !.pc = "err"]
      [] w.wr_id \in {WRID_SEND, WRID_RDMA} -> [q EXCEPT !.done = Or1(@), !.out = @ - 1]
      [] w.wr_id = WRID_RECV ->
            [q EXCEPT !.r_no_msgs = @ + 1, !.rq = @ + 1, !.done = Or2(@)]
      [] OTHER -> q

RECURSIVE PpScan(_, _)
PpScan(q, ws) ==
    IF ws = <<>> \/ q.pc # "loop" THEN q ELSE PpScan(pp_wc(q, Head(ws)), Tail(ws))

\* One iteration of while (!Finished): n = ib_poll(ibdev, wc, 2); if
\* (Finished) break; the for loop; if (done == 3) post.
pp_body(t, side) ==
    IF t[side].Finished THEN [t EXCEPT ![side].pc = "done"]
    ELSE LET k == Min(2, Len(t[side].cq))
             q == PpScan([t[side] EXCEPT !.cq = SubSeq(@, k + 1, Len(@))],
                         SubSeq(t[side].cq, 1, k))
             u == [t EXCEPT ![side] = q]
         IN  IF q.pc = "loop" /\ pp_fire(q.done) THEN pp_post(u, side) ELSE u

PpSides == {"c", "s"}

\* if (is_client()) { ib_post_send(ibdev, 1); done = 0; }
Pp_first ==
    /\ pp.c.pc = "first"
    /\ pp' = [pp_post(pp, "c") EXCEPT !.c.pc = "loop"]
    /\ UNCHANGED <<driverVars, ini, xr, vf, tcp, wrs, qps, lsn, bi, ctl>>

Pp_body ==
    /\ \E side \in PpSides :
         /\ pp[side].pc = "loop"
         /\ pp[side].Finished \/ pp[side].cq # <<>>
         /\ pp' = pp_body(pp, side)
    /\ UNCHANGED <<driverVars, ini, xr, vf, tcp, wrs, qps, lsn, bi, ctl>>

\* A message reaches the other end and consumes a receive there.
Pp_deliver ==
    /\ \E side \in PpSides, st \in Statuses :
         LET peer == IF side = "c" THEN "s" ELSE "c"
         IN  /\ pp[PpOut(side)] > 0 /\ pp[peer].rq > 0
             /\ pp.ndeliv < MaxDeliver
             /\ pp' = [pp EXCEPT ![PpOut(side)] = @ - 1, !.ndeliv = @ + 1,
                                 ![peer].rq = @ - 1,
                                 ![peer].arrived = IF st = "SUCCESS" THEN @ + 1 ELSE @,
                                 ![peer].cq = Append(@, WC(WRID_RECV, st))]
    /\ UNCHANGED <<driverVars, ini, xr, vf, tcp, wrs, qps, lsn, bi, ctl>>

\* The completion of a send enters the sender's completion queue.
Pp_sent ==
    /\ \E side \in PpSides, st \in Statuses :
         /\ pp[side].unsig > 0
         /\ pp' = [pp EXCEPT ![side].unsig = @ - 1,
                             ![side].cq = Append(@, WC(WRID_SEND, st))]
    /\ UNCHANGED <<driverVars, ini, xr, vf, tcp, wrs, qps, lsn, bi, ctl>>

\* The duration timer of one end fires.
Pp_alarm ==
    /\ \E side \in PpSides :
         /\ pp[side].pc \in {"first", "loop"} /\ ~pp[side].Finished
         /\ pp' = [pp EXCEPT ![side].Finished = TRUE]
    /\ UNCHANGED <<driverVars, ini, xr, vf, tcp, wrs, qps, lsn, bi, ctl>>

PpInit ==
    /\ \E v \in Vers :
         DriverInit(CFG("ib_pp_lat", v, TRUE, REQ(TRUE, 0, MaxMsgSize, 0),
                        LOC("RC", "IO_SR", "SEND")))
    /\ ini = INI0
    /\ xr = XR0
    /\ vf = VF0
    /\ tcp = TCP0
    /\ wrs = WRS0
    /\ pp = PP("first", "loop")
    /\ qps = QPS0
    /\ lsn = LSN0
    /\ bi = BI0
    /\ ctl = CTL0

PpNext == Pp_first \/ Pp_body \/ Pp_deliver \/ Pp_sent \/ Pp_alarm

\* One ping-pong latency test, both ends.
SpecPp == PpInit /\ [][PpNext]_vars

(***************************************************************************)
(* The life of a queue pair in one test: ib_open, ib_init with ib_prepare,  *)
(* the barrier, the posts of the test body, ib_close.                       *)
(***************************************************************************)
QpTransports == {"RC", "UC", "UD"}

\* An ib_prepare that creates the address handle before the queue pair is
\* moved.
PrepareStepsAhFirst(trans) ==
    IF trans = "UD" THEN <<"ah", "rtr", "rts">> ELSE <<"rtr", "rts">>

\* ib_prepare: Modify queue pair to RTR; Modify queue pair to RTS; for UD,
\* Create address handle.
PrepareSteps(trans) ==
    IF trans = "UD" THEN <<"rtr", "rts", "ah">> ELSE <<"rtr", "rts">>

\* ib_init: the two messages in the order of the role, then ib_prepare.
InitSteps(role, trans) ==
    (IF role = "c" THEN <<"send_mesg", "recv_mesg">> ELSE <<"recv_mesg", "send_mesg">>)
        \o PrepareSteps(trans)

\* The test functions: ib_open (create the queue pair, move it to INIT),
\* ib_init, the barrier, the posts of the body.
QpProgram(role, trans) ==
    <<"create_qp", "init">> \o InitSteps(role, trans) \o <<"sync", "post">>

QpTarget == [init |-> "INIT", rtr |-> "RTR", rts |-> "RTS"]

\* A failed call: error() leaves the process (rdma.c), or the function
\* returns 0 and the test goes to err, where only ib_close is left (part_001).
qp_fail(q) == [q EXCEPT !.todo = <<>>, !.res = OnFailure(ver)]

QpAt(steps) == qps.res = "run" /\ qps.todo # <<>> /\ Head(qps.todo) \in steps

QpAdvance(q) == [q EXCEPT !.todo = Tail(@)]

\* ibdev->qp = ibv_create_qp(ibdev->pd, &attr);
Qp_create ==
    /\ QpAt({"create_qp"})
    /\ \/ qps' = QpAdvance([qps EXCEPT !.state = "RESET", !.hist = <<"RESET">>])
       \/ qps' = qp_fail(qps)
    /\ UNCHANGED <<driverVars, ini, xr, vf, tcp, wrs, pp, lsn, bi, ctl>>

\* ibv_modify_qp(ibdev->qp, &attr, flags) to INIT, RTR or RTS.
Qp_modify ==
    /\ QpAt({"init", "rtr", "rts"})
    /\ LET to == QpTarget[Head(qps.todo)]
       IN  \/ qps' = QpAdvance([qps EXCEPT !.state = to, !.hist = Append(@, to)])
           \/ qps' = qp_fail(qps)
    /\ UNCHANGED <<driverVars, ini, xr, vf, tcp, wrs, pp, lsn, bi, ctl>>

\* send_mesg / recv_mesg of ib_init; dec_ibcon(&ibdev->rcon) follows a
\* successful recv_mesg.
Qp_mesg ==
    /\ QpAt({"send_mesg", "recv_mesg"})
    /\ \/ qps' = QpAdvance([qps EXCEPT !.rcon = @ \/ Head(qps.todo) = "recv_mesg"])
       \/ qps' = qp_fail(qps)
    /\ UNCHANGED <<driverVars, ini, xr, vf, tcp, wrs, pp, lsn, bi, ctl>>

\* ibdev->ah = ibv_create_ah(ibdev->pd, &ah_attr);
Qp_ah ==
    /\ QpAt({"ah"})
    /\ \/ qps' = QpAdvance([qps EXCEPT !.ah = TRUE])
       \/ qps' = qp_fail(qps)
    /\ UNCHANGED <<driverVars, ini, xr, vf, tcp, wrs, pp, lsn, bi, ctl>>

\* sync_test() / synchronize()
Qp_sync ==
    /\ QpAt({"sync"})
    /\ \/ qps' = QpAdvance(qps)
       \/ qps' = qp_fail(qps)
    /\ UNCHANGED <<driverVars, ini, xr, vf, tcp, wrs, pp, lsn, bi, ctl>>

\* ib_post_send / ib_post_rdma / ib_post_compare_swap / ib_post_fetch_add of
\* the test body, until the body ends.
Qp_post ==
    /\ QpAt({"post"})
    /\ \/ qps.posted < NCQE /\ qps' = [qps EXCEPT !.posted = @ + 1]
       \/ qps' = QpAdvance(qps)
       \/ qps' = qp_fail(qps)
    /\ UNCHANGED <<driverVars, ini, xr, vf, tcp, wrs, pp, lsn, bi, ctl>>

\* ib_close: ibv_destroy_ah, ..., ibv_destroy_qp.  Not reached when error()
\* has left the process.
Qp_close ==
    /\ qps.todo = <<>> /\ qps.res \in {"run", "fail"} /\ qps.hist # <<>>
    /\ qps' = [qps EXCEPT !.state = "none", !.ah = FALSE, !.res = "closed"]
    /\ UNCHANGED <<driverVars, ini, xr, vf, tcp, wrs, pp, lsn, bi, ctl>>

QpInit ==
    /\ \E v \in Vers :
         DriverInit(CFG("ib_bi_bw", v, TRUE, REQ(TRUE, 0, MaxMsgSize, 0),
                        LOC("RC", "IO_SR", "SEND")))
    /\ ini = INI0
    /\ xr = XR0
    /\ vf = VF0
    /\ tcp = TCP0
    /\ wrs = WRS0
    /\ pp = PP0
    /\ \E role \in {"c", "s"}, trans \in QpTransports :
         qps = QPS(role, trans, QpProgram(role, trans))
    /\ lsn = LSN0
    /\ bi = BI0
    /\ ctl = CTL0

QpNext == Qp_create \/ Qp_modify \/ Qp_mesg \/ Qp_ah \/ Qp_sync \/ Qp_post \/ Qp_close

\* One endpoint of one test, seen from its queue pair.
SpecQp == QpInit /\ [][QpNext]_vars

(***************************************************************************)
(* The servers that announce a TCP port over the control channel:           *)
(* socket_server_init (ip.c) and server_get_host / server_get_hosts of the  *)
(* RDS tests, with the client that receives the port and connects.          *)
(***************************************************************************)
LsnKinds == {"ip", "rds_host", "rds_hosts"}

\* The server's calls in program order.
ServerCalls(kind) ==
    IF kind = "ip"
    THEN <<"socket", "setsockopt", "bind", "getsockname", "listen", "send_mesg",
           "accept", "set_socket_buffer_size">>
    ELSE <<"socket", "setsockopt", "bind", "get_socket_port", "send_mesg", "listen",
           "accept">>

\* Calls whose failure the function does not look at.
LsnUnchecked(kind) ==
    IF kind = "ip" THEN {} ELSE {"setsockopt", "get_socket_port", "send_mesg"}

LsnAt(cs) == lsn.s = "run" /\ lsn.todo # <<>> /\ Head(lsn.todo) \in cs

\* A failed call ends the function: syserror and return 0 (ip.c), error(SYS,
\* ...) in the RDS helpers.
lsn_fail(l) == [l EXCEPT !.todo = <<>>, !.s = "fail", !.listening = FALSE]

lsn_next(l) ==
    [l EXCEPT !.todo = Tail(@), !.s = IF Len(l.todo) = 1 THEN "ok" ELSE @,
              !.listening = IF Len(l.todo) = 1 THEN FALSE ELSE @]

\* socket, setsockopt, bind, getsockname / get_socket_port,
\* set_socket_buffer_size.
Lsn_local ==
    /\ LsnAt({"socket", "setsockopt", "bind", "getsockname", "get_socket_port",
              "set_socket_buffer_size"})
    /\ \/ lsn' = lsn_next([lsn EXCEPT !.bound = @ \/ Head(lsn.todo) = "bind"])
       \/ Head(lsn.todo) \notin LsnUnchecked(lsn.kind) /\ lsn' = lsn_fail(lsn)
    /\ UNCHANGED <<driverVars, ini, xr, vf, tcp, wrs, pp, qps, bi, ctl>>

\* listen(listenFD, 1)
Lsn_listen ==
    /\ LsnAt({"listen"})
    /\ \/ lsn' = lsn_next([lsn EXCEPT !.listening = TRUE])
       \/ lsn' = lsn_fail(lsn)
    /\ UNCHANGED <<driverVars, ini, xr, vf, tcp, wrs, pp, qps, bi, ctl>>

\* send_mesg(&port, sizeof(port), "port")
Lsn_send_mesg ==
    /\ LsnAt({"send_mesg"})
    /\ \/ lsn' = lsn_next([lsn EXCEPT !.chan = @ + 1])
       \/ Head(lsn.todo) \notin LsnUnchecked(lsn.kind) /\ lsn' = lsn_fail(lsn)
    /\ UNCHANGED <<driverVars, ini, xr, vf, tcp, wrs, pp, qps, bi, ctl>>

\* accept(listenFD, ...) returns once the client has connected.
Lsn_accept ==
    /\ LsnAt({"accept"})
    /\ \/ lsn.c = "connected" /\ ~lsn.accepted
          /\ lsn' = lsn_next([lsn EXCEPT !.accepted = TRUE])
       \/ lsn' = lsn_fail(lsn)
    /\ UNCHANGED <<driverVars, ini, xr, vf, tcp, wrs, pp, qps, bi, ctl>>

\* The client: recv_mesg(&port, ...); port = decode_port(&port);
Lsn_client_recv ==
    /\ lsn.c = "recv_mesg" /\ lsn.chan > 0
    /\ lsn' = [lsn EXCEPT !.chan = @ - 1, !.c = "connect"]
    /\ UNCHANGED <<driverVars, ini, xr, vf, tcp, wrs, pp, qps, bi, ctl>>

\* The client: connect(...) to the announced port.  A port that is bound
\* and not listening refuses the connection.
Lsn_client_connect ==
    /\ lsn.c = "connect"
    /\ lsn' = [lsn EXCEPT !.c = IF lsn.listening THEN "connected" ELSE "refused"]
    /\ UNCHANGED <<driverVars, ini, xr, vf, tcp, wrs, pp, qps, bi, ctl>>

LsnInit ==
    /\ \E v \in Vers :
         DriverInit(CFG("socket_server_bw", v, FALSE, REQ(TRUE, 0, MaxMsgSize, 0),
                        LOC("RC", "IO_SR", "SEND")))
    /\ ini = INI0
    /\ xr = XR0
    /\ vf = VF0
    /\ tcp = TCP0
    /\ wrs = WRS0
    /\ pp = PP0
    /\ qps = QPS0
    /\ \E kind \in LsnKinds : lsn = LSN(kind, ServerCalls(kind))
    /\ bi = BI0
    /\ ctl = CTL0

LsnNext ==
    \/ Lsn_local \/ Lsn_listen \/ Lsn_send_mesg \/ Lsn_accept
    \/ Lsn_client_recv \/ Lsn_client_connect

\* A server that announces a port, and its client.
SpecLsn == LsnInit /\ [][LsnNext]_vars

(***************************************************************************)
(* ib_bi_bw over RC in event mode, both ends, from the first ib_poll.       *)
(***************************************************************************)
BiSides == {"c", "s"}

BiPeer(side) == IF side = "c" THEN "s" ELSE "c"

\* A completion enters the CQ of an end; a requested notification is raised
\* once.
bi_complete(q, id) ==
    [q EXCEPT !.cq = Append(@, id),
              !.events = IF q.armed THEN @ + 1 ELSE @,
              !.armed = FALSE]

BiCount(ws, id) == Cardinality({i \in 1..Len(ws) : ws[i] = id})

\* n = ibv_poll_cq(ibdev->cq, nwc, wc), the for loop, then
\* if (numRecv) ib_post_recv(&ibdev, numRecv);
\* if (numSent) ib_post_send(&ibdev, numSent);
bi_body(q, nwc) ==
    LET k  == Min(nwc, Len(q.cq))
        ws == SubSeq(q.cq, 1, k)
    IN  [q EXCEPT !.cq = SubSeq(@, k + 1, Len(@)),
                  !.rq = @ + BiCount(ws, WRID_RECV),
                  !.sq = @ + BiCount(ws, WRID_SEND),
                  !.pc = "loop"]

\* while (!Finished) { ... ib_poll: if (!Req.poll_mode && !Finished)
\* ibv_get_cq_event ...
Bi_while ==
    /\ \E side \in BiSides :
         /\ bi[side].pc = "loop"
         /\ bi' = [bi EXCEPT ![side].pc = IF bi[side].Finished THEN "done"
                                          ELSE "get_cq_event"]
    /\ UNCHANGED <<driverVars, ini, xr, vf, tcp, wrs, pp, qps, lsn, ctl>>

\* ibv_get_cq_event returns with an event; without one the end sleeps in it
\* until the alarm interrupts the call.
Bi_get_cq_event ==
    /\ \E side \in BiSides :
         /\ bi[side].pc = "get_cq_event"
         /\ \/ /\ bi[side].events > 0
               /\ bi' = [bi EXCEPT ![side].events = @ - 1, ![side].pc = "req_notify"]
            \/ /\ bi[side].events = 0 /\ bi[side].Finished
               /\ bi' = [bi EXCEPT ![side].pc = "loop"]
    /\ UNCHANGED <<driverVars, ini, xr, vf, tcp, wrs, pp, qps, lsn, ctl>>

\* ibv_req_notify_cq(ibdev->cq, 0)
Bi_req_notify ==
    /\ \E side \in BiSides :
         /\ bi[side].pc = "req_notify"
         /\ bi' = [bi EXCEPT ![side].armed = TRUE, ![side].pc = "poll_cq"]
    /\ UNCHANGED <<driverVars, ini, xr, vf, tcp, wrs, pp, qps, lsn, ctl>>

\* ibv_poll_cq and the rest of the loop body; if (Finished) break;
Bi_body ==
    /\ \E side \in BiSides :
         /\ bi[side].pc = "poll_cq"
         /\ bi' = [bi EXCEPT ![side] = IF bi[side].Finished
                                       THEN [@ EXCEPT !.pc = "done"]
                                       ELSE bi_body(@, NCQE)]
    /\ UNCHANGED <<driverVars, ini, xr, vf, tcp, wrs, pp, qps, lsn, ctl>>

\* The adapter moves the oldest send of an end to the peer, where it
\* consumes a posted receive.  With no receive posted the peer answers
\* receiver-not-ready and the send is retried (RNR_RETRY is 7: for ever).
Bi_deliver ==
    /\ \E side \in BiSides :
         LET peer == BiPeer(side)
         IN  /\ bi[side].sq > 0 /\ bi[peer].rq > 0
             /\ bi' = [bi EXCEPT ![side].sq = @ - 1, ![side].unacked = @ + 1,
                                 ![peer] = bi_complete([@ EXCEPT !.rq = @ - 1],
                                                       WRID_RECV)]
    /\ UNCHANGED <<driverVars, ini, xr, vf, tcp, wrs, pp, qps, lsn, ctl>>

\* The acknowledgement of a delivered send completes it at the sender.
Bi_ack ==
    /\ \E side \in BiSides :
         /\ bi[side].unacked > 0
         /\ bi' = [bi EXCEPT ![side] = bi_complete([@ EXCEPT !.unacked = @ - 1],
                                                   WRID_SEND)]
    /\ UNCHANGED <<driverVars, ini, xr, vf, tcp, wrs, pp, qps, lsn, ctl>>

\* The duration timer of one end fires.
Bi_alarm ==
    /\ \E side \in BiSides :
         /\ bi[side].pc # "done" /\ ~bi[side].Finished
         /\ bi' = [bi EXCEPT ![side].Finished = TRUE]
    /\ UNCHANGED <<driverVars, ini, xr, vf, tcp, wrs, pp, qps, lsn, ctl>>

BiInit ==
    /\ DriverInit(CFG("ib_bi_bw", "rdma", TRUE, REQ(FALSE, 0, MaxMsgSize, 0),
                      LOC("RC", "IO_SR", "SEND")))
    /\ ini = INI0
    /\ xr = XR0
    /\ vf = VF0
    /\ tcp = TCP0
    /\ wrs = WRS0
    /\ pp = PP0
    /\ qps = QPS0
    /\ lsn = LSN0
    /\ bi = BI("loop", NCQE)
    /\ ctl = CTL0

BiNext ==
    \/ Bi_while \/ Bi_get_cq_event \/ Bi_req_notify \/ Bi_body
    \/ Bi_deliver \/ Bi_ack \/ Bi_alarm

\* One bidirectional RC bandwidth test in event mode, both ends.
SpecBi == BiInit /\ [][BiNext]_vars

(***************************************************************************)
(* The client drivers as sequences of calls: setup, barrier, body, and the  *)
(* calls after the err: label.                                              *)
(***************************************************************************)
ClientTests ==
    (RdmaTests \ {"ib_server_def", "ib_server_nop"})
        \cup {"socket_client_bw", "socket_client_lat",
              "datagram_client_bw", "datagram_client_lat"}

\* Operations on the control channel.
CtlOps ==
    {"client_send_request", "send_mesg", "recv_mesg", "synchronize",
     "exchange_results"}

\* ib_init on the client: client_send_request(); ...; send_mesg; recv_mesg;
\* ...; ib_prepare.
CtlInit == <<"client_send_request", "send_mesg", "recv_mesg", "ib_prepare">>

\* socket_client_init / datagram_client_init.
CtlSockInit(t) ==
    <<"client_send_request", "socket", "bind", "getsockname",
      "set_socket_buffer_size", "gethostbyname", "recv_mesg">>
        \o (IF t \in StreamTests THEN <<"connect">> ELSE <<>>)

\* The calls after err: in the drivers.
CtlTail(t) ==
    <<"stop_timing", "exchange_results">>
        \o (IF t \in SockTests THEN <<"close">> ELSE <<"ib_close">>)

\* A driver from its first call to its last.
CtlProgram(t) ==
    (IF t \in SockTests THEN CtlSockInit(t)
     ELSE <<"ib_open">>
            \o (IF t = "ib_client_atomic" THEN <<"ib_mralloc">> ELSE <<>>)
            \o CtlInit
            \o (IF RecvBeforeSync(t) > 0 THEN <<"ib_post_recv">> ELSE <<>>))
        \o <<"synchronize", "body">> \o CtlTail(t)

\* Calls that do not report a failure to the driver.
CtlUnchecked == {"client_send_request", "stop_timing", "exchange_results",
                 "close", "ib_close", "body"}

\* What a failed call leads to: the helpers of src/src/rdma.c and the client
\* inits of ip.c leave the process; in part_001 and after the inits of ip.c
\* the driver goes to err.
ctl_fail(c, t, v) ==
    LET call == Head(c.todo)
        dies == IF t \in SockTests THEN call # "synchronize" ELSE v = "rdma"
    IN  IF dies THEN [c EXCEPT !.todo = <<>>, !.res = "exit"]
        ELSE [c EXCEPT !.todo = CtlTail(t)]

CtlAt == ctl.res = "run" /\ ctl.todo # <<>>

\* client_send_request()
Ctl_request ==
    /\ CtlAt /\ Head(ctl.todo) = "client_send_request"
    /\ ctl' = [ctl EXCEPT !.todo = Tail(@), !.made = Append(@, Head(ctl.todo))]
    /\ UNCHANGED <<driverVars, ini, xr, vf, tcp, wrs, pp, qps, lsn, bi>>

\* Any other call returns successfully.
Ctl_call ==
    /\ CtlAt /\ Head(ctl.todo) # "client_send_request"
    /\ ctl' = [ctl EXCEPT !.todo = Tail(@), !.made = Append(@, Head(ctl.todo))]
    /\ UNCHANGED <<driverVars, ini, xr, vf, tcp, wrs, pp, qps, lsn, bi>>

\* A call fails.  part_001 does not look at what ib_mralloc returns.
Ctl_fail ==
    /\ CtlAt /\ Head(ctl.todo) \notin CtlUnchecked
    /\ ~(Head(ctl.todo) = "ib_mralloc" /\ ver = "ib")
    /\ ctl' = ctl_fail([ctl EXCEPT !.made = Append(@, Head(ctl.todo))], test, ver)
    /\ UNCHANGED <<driverVars, ini, xr, vf, tcp, wrs, pp, qps, lsn, bi>>

CtlInitial ==
    /\ \E t \in ClientTests, v \in Vers :
         /\ t \in SockTests => v = "ib"
         /\ DriverInit(CFG(t, v, TRUE, REQ(TRUE, 0, MaxMsgSize, 0),
                           LOC("RC", "IO_SR", "SEND")))
         /\ ctl = CTL(CtlProgram(t))
    /\ ini = INI0
    /\ xr = XR0
    /\ vf = VF0
    /\ tcp = TCP0
    /\ wrs = WRS0
    /\ pp = PP0
    /\ qps = QPS0
    /\ lsn = LSN0
    /\ bi = BI0

CtlNext == Ctl_request \/ Ctl_call \/ Ctl_fail

\* One client driver, call by call.
SpecCtl == CtlInitial /\ [][CtlNext]_vars

(***************************************************************************)
(* Properties.                                                             *)
(***************************************************************************)
Count(seq, x) == Cardinality({i \in 1..Len(seq) : seq[i] = x})

CountKind(log, kind) == Cardinality({i \in 1..Len(log) : log[i][1] = kind})

\* What the step released.
Released == SubSeq(relLog', Len(relLog) + 1, Len(relLog'))

\* The destruction order the specification gives for closing a device.
Rank(kind) ==
    CASE kind = "ah" -> 1 [] kind = "cq" -> 2 [] kind = "qp" -> 3
      [] kind = "mr" -> 4 [] kind = "pd" -> 5 [] kind = "channel" -> 6
      [] kind = "context" -> 7 [] kind = "buffer" -> 8 [] OTHER -> 9

InRankOrder(log) ==
    \A i, j \in 1..Len(log) : i < j => Rank(log[i][1]) < Rank(log[j][1])

\* C1: the step that closes the device (stop_timing, exchange_results,
\* ib_close) destroys every handle that is set, in the order address handle,
\* CQ, QP, MR, PD, completion channel, context, buffer, device list; in
\* particular the CQ goes before the QP.
C1_CloseOrder ==
    [][(test \in RdmaTests /\ pc = "err" /\ pc' = "done")
         => /\ InRankOrder(Released)
            /\ \A k \in Kinds : ibdev[k] # 0 => <<k, ibdev[k]>> \in
                                   {Released[i] : i \in 1..Len(Released)}
            /\ ibdev' = IBDEV0]_vars

\* C1 witness: a device with a CQ and a QP has been closed.
C1_Witness ==
    /\ pc = "done"
    /\ \E i, j \in 1..Len(relLog) : i < j /\ relLog[i][1] = "cq" /\ relLog[j][1] = "qp"

\* C2: when an RDMA test has passed its barrier and run to its end, every
\* buffer allocated has been freed and every memory region registered has been
\* deregistered, each once, and the test registered exactly one memory region.
C2_Balanced ==
    (test \in RdmaTests /\ pc = "done" /\ syncRes = "ok")
      => /\ \A k \in {"buffer", "mr"} : CountKind(acqLog, k) = CountKind(relLog, k)
         /\ \A i \in 1..Len(acqLog) : Count(relLog, acqLog[i]) = 1
         /\ CountKind(acqLog, "mr") = 1

\* C3: once a blocking call (ib_poll, a socket call) has returned with
\* Finished set, the loop leaves without changing any field of the statistics
\* block, max_cqes included.
C3_FinishedFirst ==
    [][(pc \in {"polled", "iodone"} /\ Finished) => LStat' = LStat]_vars

\* C4: once the alarm has set Finished, the driver comes to its end.
C4_Terminates == Finished ~> (pc \in {"done", "exit"})

\* C5: Finished becomes true only by the alarm.
C5_OnlyAlarm ==
    [][(~Finished /\ Finished') => (alarm = "armed" /\ alarm' = "fired")]_vars

HasError(w) == \E i \in 1..Len(w) : ~IsSuccess(w[i])

\* C6: a loop that harvested a completion with a status other than SUCCESS
\* goes on with its next iteration (the test is not aborted), and the error is
\* counted once.
C6_ErrorContinues ==
    [][(test \in RdmaTests /\ pc = "polled" /\ ~Finished /\ n > 0 /\ HasError(wc)
        /\ Req.no_msgs = 0)
         => /\ pc' \in {"loop", "post_send"}
            /\ LStat'.s.no_errs + LStat'.r.no_errs
                 = LStat.s.no_errs + LStat.r.no_errs
                   + Cardinality({i \in 1..Len(wc) : ~IsSuccess(wc[i])})]_vars

\* A step of the main path during which the alarm arrived in a verbs or
\* socket call, and which does not also handle a failed completion.
HitStep ==
    /\ alarm = "armed" /\ alarm' = "fired" /\ pc' # pc
    /\ pc = "polled" => ~HasError(wc)

\* The sleeping ibv_get_cq_event returns EINTR.
IntrReturn == pc = "in_get_cq_event" /\ intr /\ ~intr'

Errs(ls) == ls.s.no_errs + ls.r.no_errs

\* C7: a call interrupted by the alarm is "no work": no error is counted and
\* none is raised; ib_poll returns 0 with nothing polled; a post that was
\* interrupted accounts only the requests it had queued before; a socket call
\* that returned EINTR is not counted as an error.
C7_EintrNoWork ==
    [][/\ IntrReturn => (n' = 0 /\ wc' = <<>> /\ pc' = "polled" /\ LStat' = LStat)
       /\ HitStep => /\ Errs(LStat') = Errs(LStat)
                     /\ pc' \notin {"exit", "err"}
                     /\ (pc = "poll" => n' = 0 /\ wc' = <<>> /\ pc' = "polled")
                     /\ (test \in RdmaTests /\ loc.opcode # "RDMA_READ"
                           => LStat'.s.no_msgs - LStat.s.no_msgs = Len(sq') - Len(sq))
       /\ (pc = "iodone" /\ Finished /\ n < 0) => Errs(LStat') = Errs(LStat)]_vars

\* C7 witness: the alarm interrupted the second of the ib_post_send calls
\* ib_client_bw makes after its barrier: one request is queued and accounted,
\* no error is counted and the driver is at its loop test.
C7_Witness ==
    /\ test = "ib_client_bw" /\ pc = "loop" /\ Finished /\ alarm = "fired"
    /\ Req.no_msgs = 0 /\ delivered = 0
    /\ Len(sq) = 1 /\ LStat.s.no_msgs = 1 /\ Errs(LStat) = 0

\* C8: a driver that has returned has called exchange_results exactly once.
C8_ExchangeOnce == pc = "done" => Count(calls, "exchange_results") = 1

\* C9: after synchronize() has returned false the driver enters no loop
\* iteration and posts or sends no data, Successful stays unset, and the
\* driver still calls stop_timing and then exchange_results.
C9_FailedBarrier ==
    (ver = "ib" /\ syncRes = "fail")
      => /\ pc \in {"err", "done"}
         /\ sq = <<>>
         /\ LStat = STAT0
         /\ ~Successful
         /\ pc = "done" => calls = <<"synchronize", "stop_timing", "exchange_results">>

\* C9 witness: a driver whose barrier failed has returned.
C9_Witness == ver = "ib" /\ syncRes = "fail" /\ pc = "done"

\* Send work requests posted and not yet harvested: those the adapter still
\* holds and those whose completion waits in the CQ.
SendsInCq == Len(SelectSeq(cq, LAMBDA w : w.wr_id # WRID_RECV))
Outstanding == Len(sq) + SendsInCq

C11_InitExchange ==
    /\ (ini.c.pc = "ret1" /\ ini.s.pc = "ret1")
         => (ini.c.rcon = ini.s.lcon /\ ini.s.rcon = ini.c.lcon)
    /\ (ini.up /\ (ini.c.pc \in IniOps \/ ini.s.pc \in IniOps))
         => ENABLED (Ini_send \/ Ini_recv)

\* C11 witness: both ends have returned from ib_init with different local
\* contexts, one with an address above 2^63.
C11_Witness ==
    /\ ini.c.pc = "ret1" /\ ini.s.pc = "ret1"
    /\ ini.c.lcon # ini.s.lcon
    /\ ini.c.lcon.vaddr[1] = 255
    /\ ini.s.rcon.vaddr[1] = 255

\* C12: exchange_results cannot get stuck while the control channel is up,
\* and once it has returned on both ends each end holds, next to its own
\* block, the peer's: the send and receive roles it has of the remote side
\* (and the remote roles and max_cqes with them) are the peer's local ones.
C12_ExchangeSymmetric ==
    /\ (xr.c.pc = "ret" /\ xr.s.pc = "ret")
         => (xr.c.RStat = xr.s.LStat /\ xr.s.RStat = xr.c.LStat)
    /\ (xr.up /\ (xr.c.pc \in IniOps \/ xr.s.pc \in IniOps))
         => ENABLED (Xr_write \/ Xr_read)

\* C12 witness: both ends have returned with different blocks, one of them
\* with counters above 2^31.
C12_Witness ==
    /\ xr.c.pc = "ret" /\ xr.s.pc = "ret"
    /\ xr.c.LStat # xr.s.LStat
    /\ xr.s.RStat.s.no_bytes[1] = 128
    /\ xr.c.RStat.max_cqes[1] = 255

\* Every object acquired so far has been released exactly once.
ReleasedOnce == \A i \in 1..Len(acqLog) : Count(relLog, acqLog[i]) = 1

\* C13: a part_001 driver that has returned because a step of ib_open or of
\* ib_init failed (it never reached the barrier and posted no receive) has
\* released every object it acquired exactly once, has posted no work request
\* and has not set Successful.
C13_SetupFailureUnwinds ==
    (test \in RdmaTests /\ ver = "ib" /\ pc = "done"
       /\ Count(calls, "synchronize") = 0 /\ rq = 0)
      => (ReleasedOnce /\ sq = <<>> /\ ~Successful)

\* The verbs objects the claim names, in the order it gives for acquiring them.
AcqOrder == <<"context", "channel", "pd", "mr", "cq", "qp", "ah">>

VerbsOnly(log) == SelectSeq(log, LAMBDA e : \E i \in 1..Len(AcqOrder) : AcqOrder[i] = e[1])

HasKind(log, kind) == \E i \in 1..Len(log) : log[i][1] = kind

FirstIdx(log, kind) ==
    CHOOSE i \in 1..Len(log) : log[i][1] = kind /\ \A j \in 1..(i - 1) : log[j][1] # kind

RECURSIVE Reverse(_)
Reverse(q) == IF q = <<>> THEN <<>> ELSE Append(Reverse(Tail(q)), Head(q))

\* Every kind is first acquired after the kinds that precede it in AcqOrder.
FirstAcqInOrder ==
    \A i, j \in 1..Len(AcqOrder) :
        (i < j /\ HasKind(acqLog, AcqOrder[j]))
          => (HasKind(acqLog, AcqOrder[i]) \/ AcqOrder[i] = "ah" \/ AcqOrder[j] = "ah")
             /\ (HasKind(acqLog, AcqOrder[i])
                   => FirstIdx(acqLog, AcqOrder[i]) < FirstIdx(acqLog, AcqOrder[j]))

LoopPcs == {"loop", "poll", "polled"}

\* C15: with no_msgs = K > 0, the step of ib_client_bw that follows a poll and
\* finds LStat.s.no_msgs + LStat.s.no_errs >= K leaves the loop and posts no
\* send, whatever Finished is; the step of ib_server_def that finds
\* LStat.r.no_msgs + LStat.r.no_errs >= K leaves the loop and posts no receive.
C15_NoMsgsStops ==
    [][ (pc = "polled" /\ pc' # pc /\ Req.no_msgs > 0)
          => /\ (test = "ib_client_bw"
                   /\ LStat.s.no_msgs + LStat'.s.no_errs >= Req.no_msgs)
                  => (pc' \notin LoopPcs /\ sq' = sq
                        /\ LStat'.s.no_msgs = LStat.s.no_msgs)
             /\ (test = "ib_server_def"
                   /\ LStat'.r.no_msgs + LStat'.r.no_errs >= Req.no_msgs)
                  => (pc' \notin LoopPcs /\ rq' = rq) ]_vars

\* C15 witness: a bandwidth driver has left its loop on the message count, no
\* alarm having fired and no error having been counted.
C15_Witness ==
    /\ test \in {"ib_client_bw", "ib_server_def"} /\ Req.no_msgs > 0
    /\ ~Finished /\ pc = "err" /\ Errs(LStat) = 0
    /\ Count(calls, "synchronize") = 1
    /\ LStat.s.no_msgs + LStat.r.no_msgs = Req.no_msgs

\* k added to a 64-bit value.
RECURSIVE Plus64(_, _)
Plus64(v, k) == IF k = 0 THEN v ELSE Plus64(Inc64(v), k - 1)

\* The old value C16 gives for the completion numbered k (k = 0, 1, ...).
ExpectedOld(kind, k) ==
    IF kind = "fetch_add" THEN Plus64(Z64, k)
    ELSE IF k = 0 THEN Z64 ELSE Plus64(SwapSeed, k - 1)

\* C16: with the completions handed over in posting order and none of them an
\* error, the k-th old value a verification test reads is k for fetch-add; for
\* compare-and-swap it is 0 and then 0x0123456789abcdef + (k - 1), the value
\* the previous compare-and-swap wrote; the mismatch check does not fire.
C16_AtomicSequence ==
    (vf.pc # "off" /\ vf.inorder /\ ~vf.errs)
      => /\ ~vf.mism
         /\ \A k \in 1..Len(vf.olds) :
              /\ vf.olds[k] = ExpectedOld(vf.kind, k - 1)
              /\ (vf.kind = "compare_swap" /\ k > 1) => vf.olds[k] = vf.posts[k - 1].swap
              /\ (vf.kind = "fetch_add" /\ k > 1) => vf.olds[k] = Inc64(vf.olds[k - 1])

\* C16 witness: both slots in use, three old values checked and accepted by a
\* compare-and-swap test, the last one two above the seed's predecessor.
C16_Witness ==
    /\ vf.kind = "compare_swap" /\ vf.rd_atomic = DevMaxRdAtom
    /\ vf.inorder /\ ~vf.errs /\ ~vf.mism
    /\ Len(vf.olds) = MaxDeliver
    /\ vf.olds[MaxDeliver] = Plus64(SwapSeed, MaxDeliver - 2)
    /\ vf.last = Plus64(SwapSeed, MaxDeliver - 1)

\* C17: an old value that differs from the expected one ends the measurement
\* loop in the step that reads it, with no atomic posted after it, and the
\* test is never marked successful.
C17_MismatchFatal ==
    [][ /\ (~vf.mism /\ vf'.mism)
          => /\ vf'.pc \in {"exit", "err"}
             /\ ~vf'.Successful
             /\ vf'.olds[Len(vf'.olds)] # vf'.last
             /\ Len(vf'.posts) - Len(vf.posts) <= Len(vf'.olds) - Len(vf.olds) - 1
        /\ vf.mism => vf' = vf ]_vars

\* C17 witness: a test that stopped on a mismatch, having accepted an old
\* value before.
C17_Witness ==
    /\ vf.mism /\ Len(vf.olds) >= 2 /\ vf.pc \in {"exit", "err"}

FixedWrIds == {WRID_SEND, WRID_RECV, WRID_RDMA}

\* What the step added to the send queue.
NewlyPosted ==
    IF Len(sq') > Len(sq) THEN SubSeq(sq', Len(sq) + 1, Len(sq')) ELSE <<>>

\* C18: every work request is posted with wr_id 1 (send), 2 (receive) or 3
\* (RDMA, atomic), and a loop-body step whose completions all carry another
\* wr_id changes no message, byte or error counter and posts nothing.
C18_FixedWrIds ==
    [][ /\ \A i \in 1..Len(NewlyPosted) :
             NewlyPosted[i] = IF loc.opcode = "SEND" THEN WRID_SEND ELSE WRID_RDMA
        /\ (pc = "polled" /\ pc' # pc /\ test \in RdmaTests /\ ~Finished /\ n > 0
              /\ \A i \in 1..Len(wc) : wc[i].wr_id \notin FixedWrIds)
             => /\ [LStat' EXCEPT !.max_cqes = LStat.max_cqes] = LStat
                /\ sq' = sq /\ rq' = rq ]_vars

\* A loop-body step of one of the given drivers that handled only successful
\* completions and went round the loop credits each of them to LStat.rem_s.
RemSCredited(tests) ==
    (pc = "polled" /\ pc' = "loop" /\ test \in tests /\ ~Finished /\ n > 0
       /\ (test = "ib_client_rdma_bw" => loc.opcode = "RDMA_READ")
       /\ \A i \in 1..Len(wc) : IsSuccess(wc[i]))
      => /\ LStat'.rem_s.no_msgs = LStat.rem_s.no_msgs + Len(wc)
         /\ LStat'.rem_s.no_bytes = LStat.rem_s.no_bytes
              + Len(wc) * (IF test = "ib_client_atomic" THEN 8 ELSE Req.msg_size)

\* C19: on the client every successful RDMA-read completion and every
\* successful atomic completion adds one message and the payload size
\* (msg_size for a read, 8 for an atomic) to LStat.rem_s.
C19_RemSendCredit ==
    [][RemSCredited({"ib_client_rdma_read_lat", "ib_client_rdma_bw",
                     "ib_client_atomic"})]_vars

DatagramTests == SockTests \ StreamTests

\* C20: in a datagram driver a sendto/recv/recvfrom that returns a count other
\* than msg_size adds one to the error counter of its direction and nothing to
\* its byte and message counters.
C20_ShortCountIsError ==
    [][ (pc = "iodone" /\ pc' # pc /\ ~Finished /\ test \in DatagramTests
           /\ n # Req.msg_size)
          => LET role == IF IsSendOp(CurOp) THEN "s" ELSE "r"
             IN  LStat' = [LStat EXCEPT ![role].no_errs = @ + 1] ]_vars

TcpEnded == tcp.c.pc = "done" /\ tcp.s.pc = "done"

\* C21: at the end of a TCP bandwidth test without an I/O error the server's
\* LStat.r.no_bytes equals the client's LStat.s.no_bytes.
C21_BytesAgree ==
    (TcpEnded /\ ~tcp.ioerr) => tcp.s.LStat.r.no_bytes = tcp.c.LStat.s.no_bytes

\* C22: at the end of an RC send/receive ping-pong latency test in event mode
\* LStat.s.no_msgs equals LStat.r.no_msgs on the side that ran it.
C22_PingPongCountsEqual ==
    (test = "ib_pp_lat" /\ loc.transport = "RC" /\ loc.iomode = "IO_SR"
       /\ ~Req.poll_mode /\ pc = "done" /\ Errs(LStat) = 0
       /\ Count(calls, "exchange_results") = 1 /\ syncRes = "ok")
      => LStat.s.no_msgs = LStat.r.no_msgs

DatagramLatTests == {"datagram_client_lat", "datagram_server_lat"}

\* C23: in a datagram latency loop the local send and receive message counts
\* differ by at most 1 in every state from the barrier to the loop's exit.
C23_DatagramLatBalanced ==
    (test \in DatagramLatTests /\ syncRes = "ok")
      => /\ LStat.s.no_msgs - LStat.r.no_msgs <= 1
         /\ LStat.r.no_msgs - LStat.s.no_msgs <= 1

\* C24: ib_rdma_write_poll_lat adds to LStat.r.no_msgs only in a step that
\* finds the peer's marker in its buffer, and it never posts a receive.
C24_MarkerCounted ==
    [][ test = "ib_rdma_write_poll_lat"
          => /\ rq' = 0
             /\ LStat'.r.no_msgs # LStat.r.no_msgs
                  => (loc.buf = "rem" /\ LStat'.r.no_msgs = LStat.r.no_msgs + 1) ]_vars

\* C25: LStat.max_cqes never decreases and is at most 2*NCQE in every state,
\* also after a poll that reported failure.
C25_MaxCqesBounded ==
    [][ /\ ~GtU32(LStat.max_cqes, LStat'.max_cqes)
        /\ ~GtU32(LStat'.max_cqes, AsU32(2 * NCQE)) ]_vars

\* C26: once ib_open has returned successfully and the driver goes on,
\* Req.rd_atomic is at least 1 and at most the device's max_qp_rd_atom.
C26_RdAtomicClamped ==
    (test \in RdmaTests /\ pc \in {"mralloc", "init"})
      => (Req.rd_atomic >= 1 /\ Req.rd_atomic <= DevMaxRdAtom)

InlineOpcodes == {"SEND", "RDMA_WRITE", "RDMA_WRITE_WITH_IMM"}

\* C27: a work request carries the INLINE flag exactly when msg_size is at
\* most max_inline_data and it is a send or an RDMA write, with or without
\* immediate; an RDMA read or an atomic never carries it.
C27_InlineExactly ==
    \A i \in 1..Len(wrs.posted) :
        ("INLINE" \in wrs.posted[i].send_flags)
          <=> (wrs.msg_size <= wrs.maxinline /\ wrs.posted[i].opcode \in InlineOpcodes)

\* C27 witness: msg_size equal to a positive max_inline_data; a send went
\* inline and an RDMA read did not.
C27_Witness ==
    /\ wrs.msg_size = wrs.maxinline /\ wrs.maxinline > 0
    /\ Len(wrs.posted) = 2
    /\ wrs.posted[1].opcode = "SEND" /\ "INLINE" \in wrs.posted[1].send_flags
    /\ wrs.posted[2].opcode = "RDMA_READ" /\ "INLINE" \notin wrs.posted[2].send_flags

IniPeer(side) == IF side = "c" THEN "s" ELSE "c"

\* The 24 bytes the claim gives for a context: the five fields most
\* significant byte first, in the order lid, qpn, psn, rkey, vaddr.
IsWireOf(m, con) ==
    /\ Len(m) = 24
    /\ SubSeq(m, 1, 4) = con.lid /\ SubSeq(m, 5, 8) = con.qpn
    /\ SubSeq(m, 9, 12) = con.psn /\ SubSeq(m, 13, 16) = con.rkey
    /\ SubSeq(m, 17, 24) = con.vaddr

\* C28: what enc_ibcon puts on the wire is 24 bytes, big-endian, in the order
\* lid, qpn, psn, rkey, vaddr, and what dec_ibcon makes of it is the context
\* that was encoded, field by field, also for values with the top bit set.
C28_IbconRoundTrip ==
    \A side \in {"c", "s"} :
        /\ \A i \in 1..Len(ini[IniOut(side)]) :
               IsWireOf(ini[IniOut(side)][i], ini[side].lcon)
        /\ ini[side].rcon # IBCON0 => ini[side].rcon = ini[IniPeer(side)].lcon
        /\ dec_ibcon(enc_ibcon(ini[side].lcon)) = ini[side].lcon

\* C28 witness: the server has decoded a context whose lid, qpn, rkey and
\* vaddr are the large ones, while its own message is still on the wire.
C28_Witness ==
    /\ ini.s.rcon.lid = <<0, 0, 255, 255>> /\ ini.s.rcon.qpn = <<0, 255, 255, 255>>
    /\ ini.s.rcon.rkey = <<255, 255, 255, 255>> /\ ini.s.rcon.vaddr[1] = 255
    /\ ini.s.rcon = ini.c.lcon
    /\ Len(ini.s2c) = 1

\* The step of the given end posted a send.
PpPosted(side) == pp'[side].s_no_msgs = pp[side].s_no_msgs + 1

\* C29: the client posts the first outbound; after that an end posts only
\* when its previous outbound has completed and an inbound has arrived since
\* that post, so the server's k-th outbound follows the arrival of the
\* client's k-th and the client's (k+1)-th follows the arrival of the
\* server's k-th.
C29_Alternation ==
    [][ /\ \A side \in PpSides :
             /\ pp'[side].s_no_msgs \in {pp[side].s_no_msgs, pp[side].s_no_msgs + 1}
             /\ (PpPosted(side) /\ pp[side].pc = "loop")
                  => /\ pp'[side].out = 1
                     /\ pp'[side].r_no_msgs >= pp[side].s_no_msgs + (IF side = "s" THEN 1 ELSE 0)
                     /\ pp'[side].done = 0
        /\ pp.s.s_no_msgs = 0 /\ pp.c.s_no_msgs = 0 => ~PpPosted("s")
        /\ pp'.s.s_no_msgs <= pp'.s.arrived
        /\ pp'.c.s_no_msgs <= pp'.c.arrived + 1 ]_vars

\* C29 witness: the client's second message is on its way, after one full
\* round trip.
C29_Witness ==
    /\ pp.c.s_no_msgs = 2 /\ pp.c.r_no_msgs = 1
    /\ pp.s.s_no_msgs = 1 /\ pp.s.r_no_msgs = 1
    /\ pp.c2s = 1

QpRank == [none |-> 0, RESET |-> 1, INIT |-> 2, RTR |-> 3, RTS |-> 4]

\* C30: the queue pair moves to INIT, then RTR, then RTS and never
\* backwards; it is moved to RTR only after the peer's context has been
\* decoded, the address handle is created only in RTS, and a send-side work
\* request is posted only in RTS.
C30_QpStateOrder ==
    [][ /\ (qps'.state # qps.state /\ qps'.state # "none")
             => QpRank[qps'.state] = QpRank[qps.state] + 1
        /\ (qps'.state = "RTR" /\ qps.state # "RTR") => qps.rcon
        /\ (qps'.ah /\ ~qps.ah) => qps.state = "RTS" /\ qps.trans = "UD"
        /\ qps'.posted > qps.posted => qps.state = "RTS" ]_vars

\* C30 witness: a UD queue pair in RTS with its address handle and a send
\* posted.
C30_Witness ==
    /\ qps.trans = "UD" /\ qps.state = "RTS" /\ qps.ah /\ qps.posted = 1
    /\ qps.hist = <<"RESET", "INIT", "RTR", "RTS">>

\* C31: in event mode the loop is never asleep in ibv_get_cq_event while the
\* completion queue holds a completion and no notification event is pending.
C31_NoSleepOverCompletion ==
    ~(pc = "in_get_cq_event" /\ ~Req.poll_mode /\ cq # <<>> /\ events = 0)

RecvTests == {"ib_server_def", "ib_bi_bw", "ib_pp_lat"}

\* C32: in ib_server_def, ib_bi_bw and ib_pp_lat_loop the receives are
\* posted before the barrier and the first send after it: when the barrier
\* returns, which is when the first message of the peer can arrive, a
\* receive is posted and nothing has been sent; and nothing is posted for
\* sending before the barrier has returned.
C32_RecvBeforeBarrier ==
    [][ /\ (test \in RecvTests /\ syncRes # "ok" /\ syncRes' = "ok")
             => (rq' > 0 /\ sq' = <<>>)
        /\ (test \in RecvTests /\ sq = <<>> /\ sq' # <<>>) => syncRes = "ok"
        /\ (test \in RecvTests /\ rq' > rq /\ syncRes # "ok") => pc = "recv0" ]_vars

\* C32 witness: the barrier has returned, every receive posted before it is
\* still posted and the first send is in the send queue.
C32_Witness ==
    /\ test = "ib_bi_bw" /\ syncRes = "ok" /\ rq = NCQE /\ Len(sq) = NCQE
    /\ delivered = 0

\* C33: in ib_rdma_write_poll_lat a marker the peer has written into the
\* local buffer is overwritten by the local store (*p = locID; *q = locID)
\* only after the spin loop has seen it, that is after the spin loop has
\* been left at least once and counted the message.
C33_MarkerSeenBeforeStore ==
    [][ (test = "ib_rdma_write_poll_lat" /\ loc.buf = "rem" /\ loc'.buf = "loc")
          => LStat.r.no_msgs > 0 ]_vars

\* C34: whenever the client can attempt to connect to a port the server has
\* announced, the server has called listen on that socket (or has ended).
C34_ListenBeforeAnnounce ==
    (lsn.c = "connect" /\ lsn.s = "run") => lsn.listening

\* C35: in the ping-pong latency loop an endpoint never has more than one
\* receive posted, and while a message of the peer is in flight to an
\* endpoint that endpoint has a receive posted.
C35_OneReceivePosted ==
    /\ pp.c.rq <= 1 /\ pp.s.rq <= 1
    /\ pp.c2s > 0 => pp.s.rq = 1
    /\ pp.s2c > 0 => pp.c.rq = 1

\* C35 witness: the server has consumed its receive, posted it again and
\* answered; the answer is in flight to the client, whose receive is posted.
C35_Witness ==
    /\ pp.s.r_no_msgs = 1 /\ pp.s.rq = 1 /\ pp.s.s_no_msgs = 1
    /\ pp.s2c = 1 /\ pp.c.rq = 1

\* An end asleep in ibv_get_cq_event with nothing to wake it.
BiAsleep(side) ==
    /\ bi[side].pc = "get_cq_event" /\ bi[side].events = 0
    /\ ~bi[side].Finished

\* No posted work request of the end can still complete.
BiNothingCompletes(side) ==
    /\ bi[side].unacked = 0
    /\ bi[side].sq > 0 => bi[BiPeer(side)].rq = 0

\* C36: before Finished is set, the two ends of a bidirectional RC
\* bandwidth test in event mode are never both asleep in ibv_get_cq_event
\* with no posted work request that can still complete.
C36_NoMutualStall ==
    ~(\A side \in BiSides : BiAsleep(side) /\ BiNothingCompletes(side))

\* C37: at the end of a TCP bandwidth test the bytes the server has counted
\* as received do not exceed the bytes the client has counted as sent.
C37_ServerNotAhead ==
    TcpEnded => tcp.s.LStat.r.no_bytes <= tcp.c.LStat.s.no_bytes

\* C38: the stream drivers count whole messages only: in every state
\* LStat.s.no_bytes = msg_size * LStat.s.no_msgs and LStat.r.no_bytes =
\* msg_size * LStat.r.no_msgs; a count below msg_size that send_full or
\* recv_full returns comes with Finished set.
C38_WholeMessagesOnly ==
    test \in StreamTests =>
        /\ LStat.s.no_bytes = Req.msg_size * LStat.s.no_msgs
        /\ LStat.r.no_bytes = Req.msg_size * LStat.r.no_msgs
        /\ (pc = "iodone" /\ n >= 0 /\ n < Req.msg_size) => Finished

\* C38 witness: after one whole message has been counted, send_full has
\* returned a short count with Finished set.
C38_Witness ==
    /\ test = "socket_client_bw" /\ Req.msg_size = MaxMsgSize
    /\ LStat.s.no_msgs = 1 /\ LStat.s.no_bytes = MaxMsgSize
    /\ pc = "iodone" /\ n = 1 /\ Finished

\* C39: in the socket drivers every descriptor that was opened is closed
\* exactly once by the time the driver returns, and close is called only on
\* a descriptor that is open.
C39_CloseExactlyOnce ==
    test \in SockTests =>
        /\ \A i \in 1..Len(relLog) :
             /\ Count(relLog, relLog[i]) = 1
             /\ Count(acqLog, relLog[i]) = 1
        /\ pc = "done" => \A i \in 1..Len(acqLog) : Count(relLog, acqLog[i]) = 1

\* C40: on the client every control-channel operation of a test comes after
\* client_send_request; exchange_results is not reached without it.
C40_RequestFirst ==
    \A i \in 1..Len(ctl.made) :
        (ctl.made[i] \in CtlOps /\ ctl.made[i] # "client_send_request")
            => \E j \in 1..(i - 1) : ctl.made[j] = "client_send_request"

====
